---- MODULE Spec2Model ----
\* Model of the branch-name suggestion pipeline of vscode-ai-branch-namer:
\* AIService.generateBranchNames (src/src/aiService.ts) with its configuration
\* validation, retry loop, failure classification and reply parsing.
\*
\* Text is modelled as a sequence of one-character strings, so that
\* toLowerCase, includes, split, trim and template interpolation are computed
\* as the code computes them.  An optional value (TypeScript `x?: T`) is a
\* sequence of length 0 (undefined) or 1.
EXTENDS Integers, Sequences, FiniteSets, TLC

\* ---------------------------------------------------------------- bounds
\* longest reply text the generation API returns in the model
MaxReplyLen == 4
\* largest suggestion count used in the model (the settings clamp it to <= 10)
MaxCount == 2
\* how far below 1 and above 10 the suggestionCount setting ranges in the model
SettingSlack == 2
\* longest branch name spelled out over the small alphabet
MaxNameLen == 3
\* largest number of staged paths the index holds in the model
MaxPaths == 2
\* longest body of a staged diff in the model (between its first character
\* and its closing newline)
MaxDiffLen == 3
\* largest maxLength argument passed to getGitDiff in the model
MaxLengthArg == 24

\* longest context and longest commit message passed to buildPrompt
MaxTextLen == 2
\* longest API key of the model
MaxKeyLen == 4
\* largest config.timeout of the model, in clock ticks
MaxTimeout == 3
\* how many ticks past its deadline a request is followed
MaxOverrun == 2

\* ------------------------------------------------------ program constants
maxRetries == 3
retryDelay == 1000
\* the longest commit message, trimmed, that the input box accepts
maxCommitMessageLength == 2000

\* ------------------------------------------------------------ text literals
msg_FailedAfter == <<"F","a","i","l","e","d"," ","t","o"," ","g","e","n","e","r","a","t","e"," ","b","r","a","n","c","h"," ","n","a","m","e","s"," ","a","f","t","e","r"," ">>
msg_Attempts == <<" ","a","t","t","e","m","p","t","s",":"," ">>
msg_ConfigurationError == <<"C","o","n","f","i","g","u","r","a","t","i","o","n"," ","e","r","r","o","r","."," ">>
msg_Missing == <<"M","i","s","s","i","n","g",":"," ">>
msg_CommaSpace == <<","," ">>
fld_ApiKey == <<"A","P","I"," ","K","e","y">>
fld_ApiEndpoint == <<"A","P","I"," ","E","n","d","p","o","i","n","t">>
fld_Model == <<"M","o","d","e","l">>
fld_ReasoningEffortOpen == <<"R","e","a","s","o","n","i","n","g"," ","E","f","f","o","r","t"," ","(","i","n","v","a","l","i","d"," ","v","a","l","u","e",":"," ">>
fld_Close == <<")">>

\* ------------------------------------------------------------ text helpers
UpperCase == <<"A","B","C","D","E","F","G","H","I","J","K","L","M","N","O","P","Q","R","S","T","U","V","W","X","Y","Z">>

\* String.prototype.toLowerCase
toLowerCase(s) ==
    [i \in 1..Len(s) |->
        IF \E k \in 1..26 : UpperCase[k] = s[i]
        THEN <<"a","b","c","d","e","f","g","h","i","j","k","l","m","n","o","p","q","r","s","t","u","v","w","x","y","z">>[CHOOSE k \in 1..26 : UpperCase[k] = s[i]]
        ELSE s[i]]

\* String.prototype.includes: t occurs in s as a contiguous substring
includes(s, t) ==
    \E i \in 1..(Len(s) - Len(t) + 1) : SubSeq(s, i, i + Len(t) - 1) = t

\* the whitespace String.prototype.trim strips (the part of it the model uses)
IsWhitespace(c) == c \in {" ", "\t", "\r", "\n"}

RECURSIVE trimStart(_)
trimStart(s) ==
    IF s # <<>> /\ IsWhitespace(Head(s)) THEN trimStart(Tail(s)) ELSE s

RECURSIVE trimEnd(_)
trimEnd(s) ==
    IF s # <<>> /\ IsWhitespace(s[Len(s)]) THEN trimEnd(SubSeq(s, 1, Len(s) - 1)) ELSE s

\* String.prototype.trim
trim(s) == trimEnd(trimStart(s))

\* String.prototype.split('\n'): the pieces between newlines, [""] for ""
RECURSIVE split(_)
split(s) ==
    IF \E i \in 1..Len(s) : s[i] = "\n"
    THEN LET i == CHOOSE k \in 1..Len(s) :
                     s[k] = "\n" /\ \A m \in 1..(k - 1) : s[m] # "\n"
         IN  <<SubSeq(s, 1, i - 1)>> \o split(SubSeq(s, i + 1, Len(s)))
    ELSE <<s>>

\* Array.prototype.join(sep)
RECURSIVE join(_, _)
join(parts, sep) ==
    IF parts = <<>> THEN <<>>
    ELSE IF Len(parts) = 1 THEN parts[1]
    ELSE parts[1] \o sep \o join(Tail(parts), sep)

\* Array.prototype.filter(line => line.length > 0)
RECURSIVE filterNonEmpty(_)
filterNonEmpty(ls) ==
    IF ls = <<>> THEN <<>>
    ELSE IF Len(Head(ls)) > 0 THEN <<Head(ls)>> \o filterNonEmpty(Tail(ls))
    ELSE filterNonEmpty(Tail(ls))

\* Array.prototype.slice(0, n) for n >= 0
slice0(ls, n) == SubSeq(ls, 1, IF n < Len(ls) THEN n ELSE Len(ls))

DigitChars == <<"0","1","2","3","4","5","6","7","8","9">>

\* template interpolation `${n}` of a non-negative integer: its decimal digits
RECURSIVE NumberToString(_)
NumberToString(n) ==
    IF n < 10 THEN <<DigitChars[n + 1]>>
    ELSE NumberToString(n \div 10) \o <<DigitChars[(n % 10) + 1]>>

\* template interpolation `${s}` of the reasoning-effort values the model uses
EffortText(e) ==
    CASE e = "none"    -> <<"n","o","n","e">>
      [] e = "minimal" -> <<"m","i","n","i","m","a","l">>
      [] e = "low"     -> <<"l","o","w">>
      [] e = "medium"  -> <<"m","e","d","i","u","m">>
      [] e = "high"    -> <<"h","i","g","h">>
      [] e = "xhigh"   -> <<"x","h","i","g","h">>
      [] e = "invalid" -> <<"i","n","v","a","l","i","d">>

\* ------------------------------------------------------------ configuration
\* type ReasoningEffort
validReasoningEfforts == {"none", "minimal", "low", "medium", "high", "xhigh"}

\* variant of validateConfiguration: `valid` looks at the missing fields only
validateConfiguration_ValidIgnoresInvalid(cfg) ==
    LET missing ==
            (IF cfg.apiKey = "" THEN <<fld_ApiKey>> ELSE <<>>)
            \o (IF cfg.apiEndpoint = "" THEN <<fld_ApiEndpoint>> ELSE <<>>)
            \o (IF cfg.model = "" THEN <<fld_Model>> ELSE <<>>)
        invalid ==
            IF cfg.reasoningEffort # <<>> /\ cfg.reasoningEffort[1] # ""
               /\ cfg.reasoningEffort[1] \notin validReasoningEfforts
            THEN <<fld_ReasoningEffortOpen \o EffortText(cfg.reasoningEffort[1]) \o fld_Close>>
            ELSE <<>>
    IN  [valid |-> (Len(missing) = 0),
         missing |-> missing,
         invalid |-> invalid]

\* AIService.validateConfiguration
validateConfiguration(cfg) ==
    LET missing ==
            (IF cfg.apiKey = "" THEN <<fld_ApiKey>> ELSE <<>>)
            \o (IF cfg.apiEndpoint = "" THEN <<fld_ApiEndpoint>> ELSE <<>>)
            \o (IF cfg.model = "" THEN <<fld_Model>> ELSE <<>>)
        invalid ==
            IF cfg.reasoningEffort # <<>> /\ cfg.reasoningEffort[1] # ""
               /\ cfg.reasoningEffort[1] \notin validReasoningEfforts
            THEN <<fld_ReasoningEffortOpen \o EffortText(cfg.reasoningEffort[1]) \o fld_Close>>
            ELSE <<>>
    IN  [valid |-> (Len(missing) = 0 /\ Len(invalid) = 0),
         missing |-> missing,
         invalid |-> invalid]

\* variant of ConfigErrorMessage: only the missing fields are reported
ConfigErrorMessage_MissingOnly(validation) ==
    msg_ConfigurationError \o msg_Missing \o join(validation.missing, msg_CommaSpace)

\* generateBranchNames: the message of the CONFIG_ERROR it throws
ConfigErrorMessage(validation) ==
    LET errors ==
            (IF Len(validation.missing) > 0
             THEN <<msg_Missing \o join(validation.missing, msg_CommaSpace)>> ELSE <<>>)
            \o (IF Len(validation.invalid) > 0
                THEN <<<<"I","n","v","a","l","i","d",":"," ">> \o join(validation.invalid, msg_CommaSpace)>> ELSE <<>>)
    IN  msg_ConfigurationError \o join(errors, <<";"," ">>)

\* ------------------------------------------------------------ one attempt
\* class AIServiceError: an error value with its code and message
AIServiceError(message, code) == [code |-> code, message |-> message]

NoError == [code |-> "", message |-> <<>>]

\* AIService.callAI, failure side: the error one attempt throws.  o is what the
\* transport delivered: a timeout (abort), a connection failure, a non-ok HTTP
\* status with its body, or an ok reply without choices[0].message.
callAIError(o) ==
    CASE o.kind = "timeout"      -> AIServiceError(<<"R","e","q","u","e","s","t"," ","t","i","m","e","o","u","t">>, "TIMEOUT_ERROR")
      [] o.kind = "econnreset"   -> AIServiceError(<<"r","e","a","d"," ","E","C","O","N","N","R","E","S","E","T">>, "")
      [] o.kind = "econnrefused" -> AIServiceError(<<"c","o","n","n","e","c","t"," ","E","C","O","N","N","R","E","F","U","S","E","D">>, "")
      [] o.kind = "etimedout"    -> AIServiceError(<<"c","o","n","n","e","c","t"," ","E","T","I","M","E","D","O","U","T">>, "")
      [] o.kind = "http"         ->
            AIServiceError(<<"A","P","I"," ","r","e","q","u","e","s","t"," ","f","a","i","l","e","d"," ","w","i","t","h"," ","s","t","a","t","u","s"," ">> \o NumberToString(o.status)
                           \o <<":"," ">> \o o.body, "API_ERROR")
      [] o.kind = "malformed"    -> AIServiceError(<<"I","n","v","a","l","i","d"," ","A","P","I"," ","r","e","s","p","o","n","s","e"," ","f","o","r","m","a","t">>, "API_ERROR")

\* AIService.isTransientError
isTransientError(error) ==
    LET message == toLowerCase(error.message)
    IN  \/ includes(message, <<"t","i","m","e","o","u","t">>)
        \/ includes(message, <<"e","c","o","n","n","r","e","s","e","t">>)
        \/ includes(message, <<"e","c","o","n","n","r","e","f","u","s","e","d">>)
        \/ includes(message, <<"e","t","i","m","e","d","o","u","t">>)
        \/ includes(message, <<"5","0","3">>)
        \/ includes(message, <<"5","0","2">>)
        \/ includes(message, <<"4","2","9">>)

\* variant of parseLines: the lines are not trimmed
parseLines_NoTrim(response) == filterNonEmpty(split(response))

\* AIService.parseResponse: the lines it keeps (it throws when there are none)
parseLines(response) ==
    LET raw == split(response)
    IN  filterNonEmpty([i \in 1..Len(raw) |-> trim(raw[i])])

\* AIService.parseResponse: the value it returns when it does not throw
parseResponse(response, count) == slice0(parseLines(response), count)

\* variant of LoopGuard: the loop runs one iteration too many
LoopGuard_OffByOne(a) == a <= maxRetries + 1

\* generateBranchNames: the loop condition `attempt <= this.maxRetries`
LoopGuard(a) == a <= maxRetries

\* variants of ShouldRetry: the classification is ignored; the last attempt
\* is followed by a sleep too; || written for &&
ShouldRetry_IgnoresClass(isTransient, a) == a < maxRetries

ShouldRetry_LastToo(isTransient, a) == isTransient /\ a <= maxRetries

ShouldRetry_OrInsteadOfAnd(isTransient, a) == isTransient \/ a < maxRetries

\* generateBranchNames: `isTransient && attempt < this.maxRetries`
ShouldRetry(isTransient, a) == isTransient /\ a < maxRetries

\* variant of BackoffDelay: linear instead of exponential backoff
BackoffDelay_Linear(a) == retryDelay * (a + 1)

\* generateBranchNames: `this.retryDelay * Math.pow(2, attempt)`
BackoffDelay(a) == retryDelay * (2 ^ a)

\* generateBranchNames: the error thrown after the loop
FinalError(last) ==
    AIServiceError(msg_FailedAfter \o NumberToString(maxRetries + 1)
                   \o msg_Attempts \o last.message, "API_ERROR")

\* ------------------------------------------------------------ environment

NoOutcome == [kind |-> "none", status |-> 0, body |-> <<>>]

\* ------------------------------------------------------------------ state
VARIABLES
    config,          \* AIService.config
    count,           \* argument `count` of generateBranchNames
    pc,              \* position of the invocation: start, call, sleep, done
    attempt,         \* loop variable `attempt`
    suggestionCount, \* local `suggestionCount`
    lastError,       \* local `lastError`
    result,          \* how the invocation ended: value returned or error thrown
    attempts,        \* number of callAI invocations made so far
    delays,          \* the arguments of the sleep calls made so far, in order
    log,             \* per attempt: "success", or how its failure was classified
    outcome,         \* what the transport delivered to the latest attempt
    settings,        \* the `branchai` settings loadAIConfiguration reads
    loaded,          \* the AIConfiguration loadAIConfiguration returned, if any
    validated,       \* the value validateConfiguration returned, if any
    branchName,      \* argument `branchName` of validateBranchName
    nameCheck,       \* the value validateBranchName returned, if any
    workspace,       \* whether vscode.workspace.workspaceFolders[0] exists
    gitCall,         \* the latest GitOperations query and what git answered
    gitResult,       \* how that query ended, if any was made
    ui,              \* one UIHandlers command: which one, its position, its locals
    git,             \* the repository behind the workspace folder
    issued,          \* the calls and git commands the command has made, in order
    shown,           \* the messages the command has shown, in order
    net,             \* one callAI invocation: its request, its timer, the time elapsed
    svc              \* the latest call of buildPrompt or getMaskedApiKey and its value

\* the variables of one generateBranchNames invocation
genVars == <<config, count, pc, attempt, suggestionCount, lastError, result,
             attempts, delays, log, outcome>>

\* the variables of the configuration, branch-name and repository operations
auxVars == <<settings, loaded, validated, branchName, nameCheck,
             workspace, gitCall, gitResult, ui, git, issued, shown, net, svc>>

\* the variables of one UIHandlers command
ctlVars == <<ui, git, issued, shown>>

\* the variables of the AIService methods called on their own
svcVars == <<net, svc>>

vars == <<genVars, auxVars>>

NoSettings == [apiEndpoint |-> <<>>, apiKey |-> <<>>, model |-> <<>>,
               suggestionCount |-> <<>>, reasoningEffort |-> <<>>]

NoGitCall == [op |-> "none", maxLength |-> <<>>, failed |-> 0, paths |-> <<>>,
              stdout |-> <<>>, modified |-> <<>>, untracked |-> <<>>]

\* no UIHandlers command has been triggered
NoUI == [cmd |-> "none", step |-> "idle", commitMessage |-> <<>>, context |-> <<>>,
         suggestions |-> <<>>, selected |-> <<>>, chosen |-> <<>>, selection |-> <<>>]

\* a repository nothing is asked of
NoRepository == [isRepo |-> TRUE, staged |-> <<>>, modified |-> <<>>, diff |-> <<>>,
                 diffFails |-> FALSE, branches |-> {}, head |-> <<>>]

\* callAI is not running
NoNet == [phase |-> "idle", timeout |-> 0, armed |-> FALSE, elapsed |-> 0,
          status |-> 0, thrown |-> ""]

\* neither buildPrompt nor getMaskedApiKey has been called
NoSvc == [op |-> "none", context |-> <<>>, commitMessage |-> <<>>, count |-> <<>>,
          apiKey |-> <<>>, value |-> <<>>]

CtlIdle ==
    /\ ui = NoUI
    /\ git = NoRepository
    /\ issued = <<>>
    /\ shown = <<>>
    /\ net = NoNet
    /\ svc = NoSvc

\* nothing has been loaded, validated or queried
AuxIdle ==
    /\ settings = NoSettings
    /\ loaded = <<>>
    /\ validated = <<>>
    /\ branchName = <<>>
    /\ nameCheck = <<>>
    /\ workspace = TRUE
    /\ gitCall = NoGitCall
    /\ gitResult = <<>>
    /\ CtlIdle

NoResult == [kind |-> "none", code |-> "", message |-> <<>>, value |-> <<>>]

Thrown(e) == [kind |-> "error", code |-> e.code, message |-> e.message, value |-> <<>>]

Init ==
    /\ config \in ([apiEndpoint : {"", "https://api.openai.com/v1"},
                    apiKey : {"", "test-key"},
                    model : {"", "gpt-4"},
                    suggestionCount : 1..MaxCount,
                    reasoningEffort : {<<>>, <<"high">>, <<"invalid">>}])
    /\ count \in ({<<>>} \cup {<<n>> : n \in 1..MaxCount})
    /\ pc = "start"
    /\ attempt = 0
    /\ suggestionCount = 0
    /\ lastError = NoError
    /\ result = NoResult
    /\ attempts = 0
    /\ delays = <<>>
    /\ log = <<>>
    /\ outcome = NoOutcome
    /\ AuxIdle

\* generateBranchNames up to the loop: validation, effective count
Validate ==
    /\ pc = "start"
    /\ LET validation == validateConfiguration(config)
       IN  IF ~validation.valid
           THEN /\ result' = Thrown(AIServiceError(ConfigErrorMessage(validation), "CONFIG_ERROR"))
                /\ pc' = "done"
                /\ UNCHANGED suggestionCount
           ELSE /\ suggestionCount' = (IF count # <<>> /\ count[1] # 0 THEN count[1] ELSE config.suggestionCount)
                /\ pc' = "call"
                /\ UNCHANGED result
    /\ attempt' = 0
    /\ UNCHANGED <<config, count, lastError, attempts, delays, log, outcome>>
    /\ UNCHANGED auxVars

\* the end of one loop iteration without break: attempt++ and the loop condition
NextIteration(last) ==
    /\ attempt' = attempt + 1
    /\ IF LoopGuard(attempt + 1)
       THEN pc' = "call" /\ UNCHANGED result
       ELSE pc' = "done" /\ result' = Thrown(FinalError(last))

\* generateBranchNames: the catch block of the loop, for the caught error
Catch(error) ==
    /\ lastError' = error
    /\ LET isTransient == isTransientError(error)
       IN  IF ShouldRetry(isTransient, attempt)
           THEN /\ delays' = Append(delays, BackoffDelay(attempt))
                /\ pc' = "sleep"
                /\ UNCHANGED <<attempt, result>>
           ELSE /\ UNCHANGED delays
                /\ IF ~isTransient
                   THEN /\ pc' = "done"
                        /\ result' = Thrown(FinalError(error))
                        /\ UNCHANGED attempt
                   ELSE NextIteration(error)

\* one attempt in which callAI throws, for what the transport can deliver
AttemptFailsWith(failures) ==
    /\ pc = "call"
    /\ \E o \in failures :
        LET error == callAIError(o)
        IN  /\ outcome' = o
            /\ attempts' = attempts + 1
            /\ log' = Append(log, IF isTransientError(error) THEN "transient" ELSE "fatal")
            /\ Catch(error)
    /\ UNCHANGED <<config, count, suggestionCount>>
    /\ UNCHANGED auxVars

\* one attempt in which callAI returns: parseResponse returns the list (the
\* local lastError ends with the return), or throws PARSE_ERROR inside the
\* try block, which the catch block handles
AttemptSucceedsWith(replies) ==
    /\ pc = "call"
    /\ \E o \in replies :
        /\ outcome' = o
        /\ attempts' = attempts + 1
        /\ log' = Append(log, "success")
        /\ IF Len(parseLines(o.body)) = 0
           THEN Catch(AIServiceError(<<"N","o"," ","b","r","a","n","c","h"," ","n","a","m","e","s"," ","g","e","n","e","r","a","t","e","d">>, "PARSE_ERROR"))
           ELSE /\ result' = ([kind |-> "ok", code |-> "", message |-> <<>>, value |-> (parseResponse(o.body, suggestionCount))])
                /\ pc' = "done"
                /\ lastError' = NoError
                /\ UNCHANGED <<attempt, delays>>
    /\ UNCHANGED <<config, count, suggestionCount>>
    /\ UNCHANGED auxVars

\* variant of SleepElapsed: the promise of sleep is never resolved
SleepElapsed_Never == FALSE /\ UNCHANGED vars

\* the sleep of the backoff elapses: `continue`
SleepElapsed ==
    /\ pc = "sleep"
    /\ NextIteration(lastError)
    /\ UNCHANGED <<config, count, suggestionCount, lastError, attempts, delays, log, outcome>>
    /\ UNCHANGED auxVars

Next ==
    \/ Validate
    \/ AttemptFailsWith(({[kind |-> k, status |-> 0, body |-> <<>>] :
                             k \in {"timeout", "econnreset", "econnrefused", "etimedout"}}
                         \cup {[kind |-> "http", status |-> s, body |-> b] :
                                 s \in {400, 401, 429, 500, 502, 503}, b \in ({<<>>, <<"U","p","s","t","r","e","a","m"," ","T","i","m","e","o","u","t">>})}
                         \cup {[kind |-> "malformed", status |-> 200, body |-> <<>>]}))
    \/ AttemptSucceedsWith(({[kind |-> "ok", status |-> 200, body |-> r] : r \in (UNION {[1..n -> {"a", "b", " ", "\n"}] : n \in 0..MaxReplyLen})}))
    \/ SleepElapsed

Spec == Init /\ [][Next]_vars

\* ---- generateBranchNames under the scheduling of its awaits
\* a configuration with or without a key
InitLive ==
    /\ config \in {[apiEndpoint |-> "https://api.openai.com/v1", apiKey |-> k,
                     model |-> "gpt-4", suggestionCount |-> n, reasoningEffort |-> <<>>] :
                        k \in {"", "test-key"}, n \in 1..MaxCount}
    /\ count \in {<<>>, <<1>>}
    /\ pc = "start"
    /\ attempt = 0
    /\ suggestionCount = 0
    /\ lastError = NoError
    /\ result = NoResult
    /\ attempts = 0
    /\ delays = <<>>
    /\ log = <<>>
    /\ outcome = NoOutcome
    /\ AuxIdle

\* the attempts end in a timeout, a reset connection, an overloaded or a
\* refusing server, or in a reply of two names, one name or none
NextLive ==
    \/ Validate
    \/ AttemptFailsWith({[kind |-> "timeout", status |-> 0, body |-> <<>>],
                          [kind |-> "econnreset", status |-> 0, body |-> <<>>],
                          [kind |-> "http", status |-> 503, body |-> <<>>],
                          [kind |-> "http", status |-> 401, body |-> <<>>]})
    \/ AttemptSucceedsWith({[kind |-> "ok", status |-> 200, body |-> r] :
                                r \in {<<"a", "\n", "b">>, <<"a">>, <<>>}})
    \/ SleepElapsed

\* an enabled step is taken: a pending attempt ends (callAI returns or
\* throws) and a pending sleep elapses
SpecLive == InitLive /\ [][NextLive]_vars /\ WF_vars(NextLive)

\* ============================================================ properties
\* Reference reading of a reply text, stated on character positions and not
\* through split/trim/filter: a span <<i, j>> is a line's content when it lies
\* within one line, starts and ends with a non-blank character, and only
\* whitespace separates it from the line's two ends.
SameLine(r, i, j) == \A k \in i..j : r[k] # "\n"

ContentSpans(r) ==
    {sp \in (1..Len(r)) \X (1..Len(r)) :
        /\ sp[1] <= sp[2]
        /\ SameLine(r, sp[1], sp[2])
        /\ ~IsWhitespace(r[sp[1]])
        /\ ~IsWhitespace(r[sp[2]])
        /\ \A k \in 1..(sp[1] - 1) : SameLine(r, k, sp[1]) => IsWhitespace(r[k])
        /\ \A k \in (sp[2] + 1)..Len(r) : SameLine(r, sp[2], k) => IsWhitespace(r[k])}

\* the idx-th content span of r in text order
NthSpan(r, idx) ==
    CHOOSE sp \in ContentSpans(r) :
        Cardinality({q \in ContentSpans(r) : q[1] < sp[1]}) = idx - 1

\* the list the reply r stands for when at most c names are asked for
ExpectedList(r, c) ==
    LET n == Cardinality(ContentSpans(r))
        m == IF n < c THEN n ELSE c
    IN  [idx \in 1..m |-> SubSeq(r, NthSpan(r, idx)[1], NthSpan(r, idx)[2])]

\* the count the caller asked for: the argument if supplied, else the setting
RequestedCount == IF count # <<>> THEN count[1] ELSE config.suggestionCount

LastLog == log[Len(log)]

\* ---- C1
\* C1: whatever the outcomes of the attempts, one invocation of
\* generateBranchNames issues at most maxRetries + 1 = 4 network attempts.
C1_AtMostFourAttempts == attempts <= 4

C1_Witness == pc = "done" /\ attempts = 4 /\ result.kind = "error"

\* ---- C2
\* C2: when attempts 0, 1 and 2 fail with a transient-classified failure and
\* attempt 3 succeeds with a reply that holds a name, the invocation returns
\* the parsed list after exactly 4 attempts and exactly the delays 1000, 2000,
\* 4000 ms in that order.
C2_ThreeTransientThenSuccess ==
    (/\ log = <<"transient", "transient", "transient", "success">>
     /\ ContentSpans(outcome.body) # {})
    => /\ pc = "done"
       /\ result.kind = "ok"
       /\ result.value = ExpectedList(outcome.body, RequestedCount)
       /\ attempts = 4
       /\ delays = <<1000, 2000, 4000>>

C2_Witness ==
    /\ log = <<"transient", "transient", "transient", "success">>
    /\ result.kind = "ok"
    /\ Len(result.value) >= 1

\* ---- C3
\* C3: a fatal-classified failure on attempt k ends the invocation at once:
\* it is the last attempt, no delay follows it, and the invocation has failed;
\* a fatal failure on attempt 0 leaves exactly 1 attempt and 0 delays.
C3_FatalEndsAtOnce ==
    \A k \in 1..Len(log) :
        log[k] = "fatal" =>
            /\ k = Len(log)
            /\ attempts = k
            /\ Len(delays) = k - 1
            /\ pc = "done"
            /\ result.kind = "error"

C3_Witness ==
    /\ log = <<"fatal">>
    /\ pc = "done"
    /\ attempts = 1
    /\ delays = <<>>

\* ---- C4
\* C4: the d-th delay is slept after a transient failure on attempt d - 1 < 3
\* and lasts exactly 1000 * 2^(d-1) ms; no delay follows attempt 3, a success
\* or a fatal failure.
C4_DelaysOnlyAfterTransient ==
    /\ Len(delays) <= Len(log)
    /\ \A d \in 1..Len(delays) :
        /\ d - 1 < 3
        /\ log[d] = "transient"
        /\ delays[d] = 1000 * (2 ^ (d - 1))
    /\ \A k \in 1..Len(log) :
        (log[k] \in {"success", "fatal"} \/ k - 1 = 3) => Len(delays) < k

C4_Witness ==
    /\ pc = "done"
    /\ log = <<"transient", "transient", "transient", "transient">>
    /\ delays = <<1000, 2000, 4000>>

\* ---- C5
\* a required field is empty, or reasoningEffort is set outside the enumeration
ConfigIsInvalid ==
    \/ config.apiKey = ""
    \/ config.apiEndpoint = ""
    \/ config.model = ""
    \/ (config.reasoningEffort # <<>> /\ config.reasoningEffort[1] \notin validReasoningEfforts)

\* C5: with an invalid configuration the invocation fails with a CONFIG_ERROR
\* whose message names every missing and every invalid field, and it issues
\* no network attempt and sleeps no delay.
C5_InvalidConfigFailsFirst ==
    ConfigIsInvalid =>
        /\ attempts = 0
        /\ delays = <<>>
        /\ pc \in {"start", "done"}
        /\ pc = "done" =>
            /\ result.kind = "error"
            /\ result.code = "CONFIG_ERROR"
            /\ config.apiKey = "" => includes(result.message, fld_ApiKey)
            /\ config.apiEndpoint = "" => includes(result.message, fld_ApiEndpoint)
            /\ config.model = "" => includes(result.message, fld_Model)
            /\ (config.reasoningEffort # <<>> /\ config.reasoningEffort[1] \notin validReasoningEfforts)
                => includes(result.message,
                            fld_ReasoningEffortOpen \o EffortText(config.reasoningEffort[1]))

C5_Witness ==
    /\ pc = "done"
    /\ config.apiKey = ""
    /\ config.reasoningEffort = <<"invalid">>
    /\ result.code = "CONFIG_ERROR"

\* ---- C6
\* the failures the classification is meant to retry: a timeout, a connection
\* reset or refusal, or an HTTP status 429, 502 or 503
IsTransientKind(o) ==
    \/ o.kind \in {"timeout", "etimedout", "econnreset", "econnrefused"}
    \/ (o.kind = "http" /\ o.status \in {429, 502, 503})

\* C6: a failed attempt is classified transient if and only if it is a
\* timeout, a connection reset, a connection refusal or an HTTP 429, 502 or
\* 503; every other failure is fatal whatever text its response body carries.
C6_ClassifiedByKindOnly ==
    (Len(log) > 0 /\ outcome.kind \notin {"ok", "none"}) =>
        (LastLog = "transient" <=> IsTransientKind(outcome))

\* ---- C7
\* C7: when an attempt succeeds but its reply holds no non-empty line after
\* trimming, the invocation fails with the error kind PARSE_ERROR, distinct
\* from the network and configuration error kinds.
C7_EmptyReplyIsParseError ==
    (pc = "done" /\ outcome.kind = "ok" /\ ContentSpans(outcome.body) = {}) =>
        /\ result.kind = "error"
        /\ result.code = "PARSE_ERROR"

\* ---- C8
\* C8: an attempt whose reply parses to zero lines is the last one of its
\* invocation: the invocation has ended in failure, with no further network
\* attempt and no delay after that attempt.
C8_EmptyReplyNotRetried ==
    (outcome.kind = "ok" /\ ContentSpans(outcome.body) = {}) =>
        /\ pc = "done"
        /\ result.kind = "error"
        /\ attempts = Len(log)
        /\ LastLog = "success"
        /\ Len(delays) = attempts - 1

C8_Witness ==
    /\ pc = "done"
    /\ outcome.kind = "ok"
    /\ Len(outcome.body) > 0
    /\ ContentSpans(outcome.body) = {}
    /\ attempts = 2
    /\ delays = <<1000>>

\* ---- C9
\* the invocation gave up: it ended with the error thrown after the loop
GaveUp == pc = "done" /\ result.kind = "error" /\ result.code # "CONFIG_ERROR"

\* C9: when the invocation gives up, the error it surfaces carries the last
\* failure and an attempt count equal to the number of network attempts made.
C9_ErrorCarriesAttemptCount ==
    GaveUp =>
        /\ includes(result.message, lastError.message)
        /\ includes(result.message,
                    msg_FailedAfter \o NumberToString(attempts) \o msg_Attempts)

\* ---- C10
\* C10: the list a successful invocation returns is the first min(n, count)
\* of the reply's lines after trimming each and dropping the empty ones, with
\* count the argument if supplied and the configured suggestionCount if not:
\* order and duplicates are kept and the length never exceeds count.
C10_ReturnedListIsPrefixOfLines ==
    (pc = "done" /\ result.kind = "ok") =>
        /\ result.value = ExpectedList(outcome.body, RequestedCount)
        /\ Len(result.value) <= RequestedCount
        /\ \A i \in 1..Len(result.value) :
            /\ result.value[i] # <<>>
            /\ ~IsWhitespace(result.value[i][1])
            /\ ~IsWhitespace(result.value[i][Len(result.value[i])])

C10_Witness ==
    /\ pc = "done"
    /\ result.kind = "ok"
    /\ Cardinality(ContentSpans(outcome.body)) > Len(result.value)
    /\ \E i \in 1..Len(outcome.body) : outcome.body[i] = " "

\* ================================================= loading the configuration
\* WorkspaceConfiguration.get(key, defaultValue): the setting, or the default
\* when the setting has no value
Get(setting, defaultValue) == IF setting = <<>> THEN defaultValue ELSE setting[1]

MathMin(a, b) == IF a <= b THEN a ELSE b

\* variant of ClampCount: the lower limit is forgotten
ClampCount_NoLowerLimit(v) == MathMin(10, v)

\* loadAIConfiguration: `Math.max(1, Math.min(10, suggestionCount))`
ClampCount(v) == (IF 1 >= (MathMin(10, v)) THEN 1 ELSE (MathMin(10, v)))

\* loadAIConfiguration (timeout and temperature are passed through get
\* unchanged and are left out)
loadAIConfiguration(st) ==
    LET model == Get(st.model, "gpt-3.5-turbo")
    IN  [apiEndpoint |-> Get(st.apiEndpoint, "https://api.openai.com/v1"),
         apiKey |-> Get(st.apiKey, ""),
         model |-> model,
         suggestionCount |-> ClampCount(Get(st.suggestionCount, 5)),
         reasoningEffort |->
            <<(IF (Get(st.reasoningEffort, "medium")) \in validReasoningEfforts THEN (Get(st.reasoningEffort, "medium"))
               ELSE IF model = "gpt-5.1" THEN "none"
               ELSE IF model = "gpt-5-pro" THEN "high"
               ELSE "medium")>>]

\* no generateBranchNames invocation is under way
GenIdle ==
    /\ config = ([apiEndpoint |-> "https://api.openai.com/v1", apiKey |-> "test-key",
                  model |-> "gpt-4", suggestionCount |-> 1, reasoningEffort |-> <<>>])
    /\ count = <<>>
    /\ pc = "idle"
    /\ attempt = 0
    /\ suggestionCount = 0
    /\ lastError = NoError
    /\ result = NoResult
    /\ attempts = 0
    /\ delays = <<>>
    /\ log = <<>>
    /\ outcome = NoOutcome

InitLoad ==
    /\ GenIdle
    /\ settings \in ([apiEndpoint : {<<>>, <<"">>},
                      apiKey : {<<>>, <<"test-key">>},
                      model : {<<>>, <<"gpt-5.1">>, <<"gpt-5-pro">>, <<"gpt-4">>},
                      suggestionCount : {<<>>} \cup {<<v>> : v \in (1 - SettingSlack)..(10 + SettingSlack)},
                      reasoningEffort : {<<>>, <<"invalid-value">>} \cup {<<e>> : e \in validReasoningEfforts}])
    /\ loaded = <<>>
    /\ validated = <<>>
    /\ branchName = <<>>
    /\ nameCheck = <<>>
    /\ workspace = TRUE
    /\ gitCall = NoGitCall
    /\ gitResult = <<>>
    /\ CtlIdle

\* one call of loadAIConfiguration
LoadAIConfiguration ==
    /\ loaded = <<>>
    /\ loaded' = <<loadAIConfiguration(settings)>>
    /\ UNCHANGED <<genVars, svcVars, settings, validated, branchName, nameCheck,
                   workspace, gitCall, gitResult, ctlVars>>

NextLoad == LoadAIConfiguration

SpecLoad == InitLoad /\ [][NextLoad]_vars

\* ---- C11
\* C11: for every integer value v of the suggestionCount setting, the loaded
\* configuration has suggestionCount = max(1, min(10, v)): v itself when it
\* lies in 1..10, else the nearer limit, so always a value in 1..10.
C11_SuggestionCountClamped ==
    (loaded # <<>> /\ settings.suggestionCount # <<>>) =>
        LET v == settings.suggestionCount[1]
            c == loaded[1].suggestionCount
        IN  /\ c \in 1..10
            /\ v < 1 => c = 1
            /\ v > 10 => c = 10
            /\ v \in 1..10 => c = v

C11_Witness ==
    /\ loaded # <<>>
    /\ settings.suggestionCount # <<>>
    /\ settings.suggestionCount[1] < 1
    /\ loaded[1].suggestionCount = 1

\* ---- C12
\* the reasoning effort C12 expects for the settings
ExpectedReasoningEffort ==
    IF settings.reasoningEffort # <<>> /\ settings.reasoningEffort[1] \in validReasoningEfforts
    THEN settings.reasoningEffort[1]
    ELSE IF settings.model = <<"gpt-5.1">> THEN "none"
    ELSE IF settings.model = <<"gpt-5-pro">> THEN "high"
    ELSE "medium"

\* C12: loadAIConfiguration returns the configured reasoningEffort when it is
\* one of the six enumerated values; when the setting is unset or not one of
\* them it returns 'none' for model gpt-5.1, 'high' for model gpt-5-pro and
\* 'medium' for every other model.
C12_ReasoningEffortDefaultByModel ==
    loaded # <<>> => loaded[1].reasoningEffort = <<ExpectedReasoningEffort>>

\* ================================================ validating a configuration

InitValidate ==
    /\ config \in ([apiEndpoint : {"", "https://api.openai.com/v1"},
                    apiKey : {"", "test-key"},
                    model : {"", "gpt-4"},
                    suggestionCount : 1..MaxCount,
                    reasoningEffort : {<<>>, <<"invalid">>} \cup {<<e>> : e \in validReasoningEfforts}])
    /\ count = <<>>
    /\ pc = "idle"
    /\ attempt = 0
    /\ suggestionCount = 0
    /\ lastError = NoError
    /\ result = NoResult
    /\ attempts = 0
    /\ delays = <<>>
    /\ log = <<>>
    /\ outcome = NoOutcome
    /\ AuxIdle

\* one call of validateConfiguration on the service's configuration
ValidateConfiguration ==
    /\ validated = <<>>
    /\ validated' = <<validateConfiguration(config)>>
    /\ UNCHANGED <<genVars, svcVars, settings, loaded, branchName, nameCheck,
                   workspace, gitCall, gitResult, ctlVars>>

NextValidate == ValidateConfiguration

SpecValidate == InitValidate /\ [][NextValidate]_vars

\* ---- C13
\* the required field named f is empty in the configuration
FieldIsEmpty(f) ==
    \/ (f = fld_ApiKey /\ config.apiKey = "")
    \/ (f = fld_ApiEndpoint /\ config.apiEndpoint = "")
    \/ (f = fld_Model /\ config.model = "")

EffortNotEnumerated ==
    config.reasoningEffort # <<>> /\ config.reasoningEffort[1] \notin validReasoningEfforts

\* C13: validateConfiguration reports valid exactly when apiKey, apiEndpoint
\* and model are non-empty and reasoningEffort is absent or enumerated; the
\* missing list holds exactly the empty required fields in the order API Key,
\* API Endpoint, Model; the invalid list holds exactly one Reasoning Effort
\* entry when the value is not enumerated; both lists come in one result.
C13_ValidationResult ==
    validated # <<>> =>
        LET r == validated[1]
        IN  /\ r.valid <=> (/\ config.apiKey # ""
                            /\ config.apiEndpoint # ""
                            /\ config.model # ""
                            /\ ~EffortNotEnumerated)
            /\ r.missing = SelectSeq(<<fld_ApiKey, fld_ApiEndpoint, fld_Model>>, FieldIsEmpty)
            /\ Len(r.invalid) = (IF EffortNotEnumerated THEN 1 ELSE 0)
            /\ EffortNotEnumerated =>
                    includes(r.invalid[1], <<"R","e","a","s","o","n","i","n","g"," ","E","f","f","o","r","t">>)

C13_Witness ==
    /\ validated # <<>>
    /\ config.apiKey = ""
    /\ config.model = ""
    /\ config.apiEndpoint # ""
    /\ EffortNotEnumerated
    /\ Len(validated[1].missing) = 2
    /\ Len(validated[1].invalid) = 1

\* ==================================================== validating a branch name
\* the printable ASCII characters, U+0020 to U+007E in code order
Printable ==
    <<" ","!","\"","#","$","%","&","'","(",")","*","+",",","-",".","/">>
    \o <<"0","1","2","3","4","5","6","7","8","9",":",";","<","=",">","?">>
    \o <<"@","A","B","C","D","E","F","G","H","I","J","K","L","M","N","O">>
    \o <<"P","Q","R","S","T","U","V","W","X","Y","Z","[","\\","]","^","_">>
    \o <<"GRAVE","a","b","c","d","e","f","g","h","i","j","k","l","m","n","o">>
    \o <<"p","q","r","s","t","u","v","w","x","y","z","{","|","}","~">>

\* the code unit of a character of the model; "NUL", "DEL" and "GRAVE" stand
\* for the single characters U+0000, U+007F and U+0060
CharCode(c) ==
    CASE c = "NUL" -> 0
      [] c = "\t" -> 9
      [] c = "\n" -> 10
      [] c = "\f" -> 12
      [] c = "\r" -> 13
      [] c = "DEL" -> 127
      [] OTHER -> 31 + (CHOOSE i \in 1..Len(Printable) : Printable[i] = c)

\* validateBranchName: the length limit
maxBranchNameLength == 255

\* validateBranchName: the error texts, in the order of the checks
err_Empty == "Branch name cannot be empty"
err_TooLong == "Branch name is too long (max 255 characters)"
err_InvalidChars == "Branch name contains invalid characters"
err_Dots == "Branch name cannot contain consecutive dots or start/end with a dot"
err_Spaces == "Branch name cannot have leading or trailing spaces"
err_Reserved == "Branch name is reserved"

\* variant of invalidCharsTest: the control characters are left out of the class
invalidCharsTest_NoControl(name) ==
    \E i \in 1..Len(name) : name[i] \in {"~", "^", ":", "?", "*", "[", "]"}

\* validateBranchName: /[~^:?*\[\]\x00-\x1F\x7F]/.test(branchName)
invalidCharsTest(name) ==
    \E i \in 1..Len(name) :
        \/ name[i] \in {"~", "^", ":", "?", "*", "[", "]"}
        \/ CharCode(name[i]) \in 0..31
        \/ CharCode(name[i]) = 127

\* String.prototype.startsWith / endsWith
startsWith(s, t) == Len(s) >= Len(t) /\ SubSeq(s, 1, Len(t)) = t

endsWith(s, t) == Len(s) >= Len(t) /\ SubSeq(s, Len(s) - Len(t) + 1, Len(s)) = t

\* variant of lockedNames: MERGE_HEAD is forgotten
lockedNames_NoMergeHead ==
    {<<"H","E","A","D">>,
     <<"F","E","T","C","H","_","H","E","A","D">>,
     <<"O","R","I","G","_","H","E","A","D">>}

\* validateBranchName: lockedNames
lockedNames ==
    {<<"H","E","A","D">>,
     <<"F","E","T","C","H","_","H","E","A","D">>,
     <<"O","R","I","G","_","H","E","A","D">>,
     <<"M","E","R","G","E","_","H","E","A","D">>}

Invalid(error) == [valid |-> FALSE, error |-> <<error>>]

\* variant of validateBranchName: the dot check comes before the character check
validateBranchName_DotsFirst(name) ==
    IF name = <<>> \/ Len(trim(name)) = 0 THEN Invalid(err_Empty)
    ELSE IF Len(name) > maxBranchNameLength THEN Invalid(err_TooLong)
    ELSE IF includes(name, <<".", ".">>) \/ startsWith(name, <<".">>) \/ endsWith(name, <<".">>)
         THEN Invalid(err_Dots)
    ELSE IF invalidCharsTest(name) THEN Invalid(err_InvalidChars)
    ELSE IF name # trim(name) THEN Invalid(err_Spaces)
    ELSE IF name \in lockedNames THEN Invalid(err_Reserved)
    ELSE [valid |-> TRUE, error |-> <<>>]

\* variant of validateBranchName: the rule on dots is forgotten
validateBranchName_NoDotRule(name) ==
    IF name = <<>> \/ Len(trim(name)) = 0 THEN Invalid(err_Empty)
    ELSE IF Len(name) > maxBranchNameLength THEN Invalid(err_TooLong)
    ELSE IF invalidCharsTest(name) THEN Invalid(err_InvalidChars)
    ELSE IF name # trim(name) THEN Invalid(err_Spaces)
    ELSE IF name \in lockedNames THEN Invalid(err_Reserved)
    ELSE [valid |-> TRUE, error |-> <<>>]

\* GitOperations.validateBranchName
validateBranchName(name) ==
    IF name = <<>> \/ Len(trim(name)) = 0 THEN Invalid(err_Empty)
    ELSE IF Len(name) > maxBranchNameLength THEN Invalid(err_TooLong)
    ELSE IF invalidCharsTest(name) THEN Invalid(err_InvalidChars)
    ELSE IF includes(name, <<".", ".">>) \/ startsWith(name, <<".">>) \/ endsWith(name, <<".">>)
         THEN Invalid(err_Dots)
    ELSE IF name # trim(name) THEN Invalid(err_Spaces)
    ELSE IF name \in lockedNames THEN Invalid(err_Reserved)
    ELSE [valid |-> TRUE, error |-> <<>>]

\* characters of the short branch names: a letter, the dot, the blank, a
\* forbidden punctuation character and a control character that trim strips
NameChars == {"a", ".", " ", "~", "\t"}

\* n letters
Pad(n) == [i \in 1..n |-> "a"]

NameInputs ==
    \* short names over the alphabet
    (UNION {[1..n -> NameChars] : n \in 0..MaxNameLen})
    \* names around the length limit, with one character (or none) in front or behind
    \cup {c \o Pad(n) : c \in {<<>>} \cup {<<x>> : x \in NameChars},
                        n \in (maxBranchNameLength - 2)..maxBranchNameLength}
    \cup {Pad(n) \o <<x>> : x \in NameChars,
                            n \in (maxBranchNameLength - 2)..maxBranchNameLength}
    \* the reserved names and near misses, each forbidden character, control characters
    \cup {<<"H","E","A","D">>, <<"F","E","T","C","H","_","H","E","A","D">>,
          <<"O","R","I","G","_","H","E","A","D">>, <<"M","E","R","G","E","_","H","E","A","D">>}
    \cup {<<"H","E","A","D"," ">>, <<" ","H","E","A","D">>, <<"h","e","a","d">>,
          <<"H","E","A","D",".">>, <<"H","E","A","D","S">>, <<"H","E","A","D","~">>}
    \cup {<<"a", x, "b">> : x \in {"~", "^", ":", "?", "*", "[", "]", "NUL", "\n", "\r", "DEL", "/", "-", "_"}}
    \cup {<<"NUL">>, <<"DEL">>, <<"\n">>, <<".", "~", "DEL">>}

InitName ==
    /\ GenIdle
    /\ settings = NoSettings
    /\ loaded = <<>>
    /\ validated = <<>>
    /\ branchName \in NameInputs
    /\ nameCheck = <<>>
    /\ workspace = TRUE
    /\ gitCall = NoGitCall
    /\ gitResult = <<>>
    /\ CtlIdle

\* one call of validateBranchName
ValidateBranchName ==
    /\ nameCheck = <<>>
    /\ nameCheck' = <<validateBranchName(branchName)>>
    /\ UNCHANGED <<genVars, svcVars, settings, loaded, validated, branchName,
                   workspace, gitCall, gitResult, ctlVars>>

NextName == ValidateBranchName

SpecName == InitName /\ [][NextName]_vars

\* ---- the naming rules, stated on the characters of the name
RuleEmpty(s) == \A i \in 1..Len(s) : IsWhitespace(s[i])

RuleTooLong(s) == Len(s) > 255

ForbiddenPunctuation == {"~", "^", ":", "?", "*", "[", "]"}

\* the control characters (0x00-0x1F, 0x7F) among the characters of the model
ControlCharacters == {"NUL", "\t", "\n", "\f", "\r", "DEL"}

RuleInvalidChars(s) ==
    \E i \in 1..Len(s) : s[i] \in ForbiddenPunctuation \cup ControlCharacters

RuleDots(s) ==
    \/ \E i \in 1..(Len(s) - 1) : s[i] = "." /\ s[i + 1] = "."
    \/ (Len(s) > 0 /\ (s[1] = "." \/ s[Len(s)] = "."))

RuleOuterWhitespace(s) ==
    Len(s) > 0 /\ (IsWhitespace(s[1]) \/ IsWhitespace(s[Len(s)]))

ReservedNames ==
    {<<"H","E","A","D">>, <<"F","E","T","C","H","_","H","E","A","D">>,
     <<"O","R","I","G","_","H","E","A","D">>, <<"M","E","R","G","E","_","H","E","A","D">>}

RuleReserved(s) == s \in ReservedNames

FirstReason(s) ==
    IF RuleEmpty(s) THEN <<err_Empty>>
    ELSE IF RuleTooLong(s) THEN <<err_TooLong>>
    ELSE IF RuleInvalidChars(s) THEN <<err_InvalidChars>>
    ELSE IF RuleDots(s) THEN <<err_Dots>>
    ELSE IF RuleOuterWhitespace(s) THEN <<err_Spaces>>
    ELSE IF RuleReserved(s) THEN <<err_Reserved>>
    ELSE <<>>

\* C15: for a name that violates several rules, validate reports the reason
\* of the first violated rule in the order empty, too long, invalid
\* characters, dot rule, whitespace, reserved; an invalid name gets exactly
\* one reason and a valid name none.
C15_FirstViolatedRuleWins ==
    nameCheck # <<>> =>
        /\ nameCheck[1].error = FirstReason(branchName)
        /\ Len(nameCheck[1].error) = (IF nameCheck[1].valid THEN 0 ELSE 1)

C15_Witness ==
    /\ nameCheck # <<>>
    /\ RuleInvalidChars(branchName)
    /\ RuleDots(branchName)
    /\ RuleOuterWhitespace(branchName)
    /\ nameCheck[1].error = <<err_InvalidChars>>

\* ---- C16
\* C16 as stated: every string that contains one of ~ ^ : ? * [ ] or a
\* control character is invalid with the "invalid characters" reason.
C16_Original_AlwaysInvalidCharsReason ==
    (nameCheck # <<>> /\ RuleInvalidChars(branchName)) =>
        /\ ~nameCheck[1].valid
        /\ nameCheck[1].error = <<err_InvalidChars>>

\* C16 (amended): every string that contains one of ~ ^ : ? * [ ] or a
\* control character is invalid; its reason is "invalid characters" unless
\* the string is empty after trimming (reason "empty") or longer than 255
\* characters (reason "too long"), the two rules checked before.
C16_InvalidCharsUnlessEarlierRule ==
    (nameCheck # <<>> /\ RuleInvalidChars(branchName)) =>
        /\ ~nameCheck[1].valid
        /\ (~RuleEmpty(branchName) /\ ~RuleTooLong(branchName))
                => nameCheck[1].error = <<err_InvalidChars>>
        /\ RuleEmpty(branchName) => nameCheck[1].error = <<err_Empty>>
        /\ (~RuleEmpty(branchName) /\ RuleTooLong(branchName))
                => nameCheck[1].error = <<err_TooLong>>

C16_Witness ==
    /\ nameCheck # <<>>
    /\ branchName = <<"a", "DEL", "b">>
    /\ nameCheck[1].error = <<err_InvalidChars>>

\* ===================================================== repository queries
txt_StagedLabel == <<"S","t","a","g","e","d"," ","c","h","a","n","g","e","s",":","\n">>
txt_Truncated == <<"\n",".",".","."," ","(","t","r","u","n","c","a","t","e","d",")">>

\* getGitDiff: the default of the parameter maxLength
defaultMaxLength == 2000

\* the value a query returns
Ret(v) == [raised |-> FALSE, value |-> v]

\* a query ends by throwing
Raised == [raised |-> TRUE, value |-> <<>>]

\* GitOperations.isGitRepository; failed # 0: `git rev-parse --git-dir` fails
isGitRepository(ws, failed) ==
    IF ~ws THEN Ret(FALSE)
    ELSE IF failed # 0 THEN Ret(FALSE)
    ELSE Ret(TRUE)

\* variant of getCurrentBranch: the failure of the command is not caught
getCurrentBranch_NoCatch(ws, failed, stdout) ==
    IF ~ws THEN Ret(<<>>)
    ELSE IF failed # 0 THEN Raised
    ELSE Ret(<<trim(stdout)>>)

\* GitOperations.getCurrentBranch; null is <<>>, a name is <<name>>
getCurrentBranch(ws, failed, stdout) ==
    IF ~ws THEN Ret(<<>>)
    ELSE IF failed # 0 THEN Ret(<<>>)
    ELSE Ret(<<trim(stdout)>>)

\* getGitStatus: `out.trim().split('\n').filter(f => f)`
ParseNameList(out) == filterNonEmpty(split(trim(out)))

NoStatus == [modified |-> <<>>, untracked |-> <<>>, staged |-> <<>>]

\* GitOperations.getGitStatus; failed = k # 0: the k-th of its three commands fails
getGitStatus(ws, failed, modified, untracked, staged) ==
    IF ~ws THEN Ret(NoStatus)
    ELSE IF failed # 0 THEN Ret(NoStatus)
    ELSE Ret([modified |-> ParseNameList(modified),
              untracked |-> ParseNameList(untracked),
              staged |-> ParseNameList(staged)])

\* variants of TruncateDiff: the marker is appended without cutting; the
\* comparison is >= instead of >
TruncateDiff_NoCut(fullDiff, maxLength) ==
    IF Len(fullDiff) > maxLength THEN fullDiff \o txt_Truncated ELSE fullDiff

TruncateDiff_AtEqual(fullDiff, maxLength) ==
    IF Len(fullDiff) >= maxLength
    THEN SubSeq(fullDiff, 1, maxLength) \o txt_Truncated
    ELSE fullDiff

\* getGitDiff: `fullDiff.substring(0, maxLength) + '\n... (truncated)'` when
\* fullDiff is longer than maxLength
TruncateDiff(fullDiff, maxLength) ==
    IF Len(fullDiff) > maxLength
    THEN SubSeq(fullDiff, 1, maxLength) \o txt_Truncated
    ELSE fullDiff

\* GitOperations.getGitDiff; maxLength is <<>> when the argument is omitted
getGitDiff(ws, failed, staged, maxLength) ==
    IF ~ws THEN Ret(<<>>)
    ELSE IF failed # 0 THEN Ret(<<>>)
    ELSE Ret(TruncateDiff((IF Len(trim(staged)) > 0 THEN txt_StagedLabel \o staged \o <<"\n">> ELSE <<>>),
                          IF maxLength = <<>> THEN defaultMaxLength ELSE maxLength[1]))

\* GitOperations.hasStagedChanges
hasStagedChanges(ws, failed, stdout) ==
    IF ~ws THEN Ret(FALSE)
    ELSE IF failed # 0 THEN Ret(FALSE)
    ELSE Ret(Len(trim(stdout)) > 0)

\* ---- what git answers

\* the staged paths of the index, in the order git lists them
PathLists == UNION {[1..n -> ({<<"a">>, <<"a", " ", "b">>, <<" ">>})] : n \in 0..MaxPaths}

\* the output of `git diff --cached --name-only`: each path and a newline
RECURSIVE NameOnlyOutput(_)
NameOnlyOutput(paths) ==
    IF paths = <<>> THEN <<>>
    ELSE Head(paths) \o <<"\n">> \o NameOnlyOutput(Tail(paths))

\* the outputs of the two other commands of getGitStatus
OtherOutputs == {<<>>, <<"a", "\n">>, <<"a", "\n", "a", " ", "b", "\n">>}

InitGit ==
    /\ GenIdle
    /\ settings = NoSettings
    /\ loaded = <<>>
    /\ validated = <<>>
    /\ branchName = <<>>
    /\ nameCheck = <<>>
    /\ workspace \in BOOLEAN
    /\ gitCall = NoGitCall
    /\ gitResult = <<>>
    /\ CtlIdle

GitFrame ==
    UNCHANGED <<genVars, svcVars, settings, loaded, validated, branchName, nameCheck, workspace, ctlVars>>

\* one call of isGitRepository
IsGitRepository ==
    /\ \E failed \in 0..1 :
        /\ gitCall' = [NoGitCall EXCEPT !.op = "isGitRepository", !.failed = failed]
        /\ gitResult' = <<isGitRepository(workspace, failed)>>
    /\ GitFrame

\* one call of getCurrentBranch
GetCurrentBranch ==
    /\ \E failed \in 0..1, out \in ({<<>>, <<"m", "\n">>, <<"f", "/", "x", "\n">>}) :
        /\ gitCall' = [NoGitCall EXCEPT !.op = "getCurrentBranch", !.failed = failed,
                                        !.stdout = IF failed = 0 THEN out ELSE <<>>]
        /\ gitResult' = <<getCurrentBranch(workspace, failed, gitCall'.stdout)>>
    /\ GitFrame

\* one call of getGitStatus
GetGitStatus ==
    /\ \E failed \in 0..3, paths \in PathLists, m \in OtherOutputs, u \in OtherOutputs :
        /\ gitCall' = [NoGitCall EXCEPT !.op = "getGitStatus", !.failed = failed,
                                        !.paths = paths,
                                        !.stdout = NameOnlyOutput(paths),
                                        !.modified = m, !.untracked = u]
        /\ gitResult' = <<getGitStatus(workspace, failed, m, u, NameOnlyOutput(paths))>>
    /\ GitFrame

\* one call of getGitDiff
GetGitDiff ==
    /\ \E failed \in 0..1, out \in ({<<>>} \cup {<<"d">> \o b \o <<"\n">> :
                                                    b \in UNION {[1..n -> {"x", "\n"}] : n \in 0..MaxDiffLen}}), maxLength \in ({<<>>} \cup {<<n>> : n \in 0..MaxLengthArg}) :
        /\ gitCall' = [NoGitCall EXCEPT !.op = "getGitDiff", !.failed = failed,
                                        !.maxLength = maxLength,
                                        !.stdout = IF failed = 0 THEN out ELSE <<>>]
        /\ gitResult' = <<getGitDiff(workspace, failed, gitCall'.stdout, maxLength)>>
    /\ GitFrame

\* one call of hasStagedChanges
HasStagedChanges ==
    /\ \E failed \in 0..1, paths \in PathLists :
        /\ gitCall' = [NoGitCall EXCEPT !.op = "hasStagedChanges", !.failed = failed,
                                        !.paths = paths,
                                        !.stdout = NameOnlyOutput(paths)]
        /\ gitResult' = <<hasStagedChanges(workspace, failed, NameOnlyOutput(paths))>>
    /\ GitFrame

NextGit ==
    \/ IsGitRepository
    \/ GetCurrentBranch
    \/ GetGitStatus
    \/ GetGitDiff
    \/ HasStagedChanges

SpecGit == InitGit /\ [][NextGit]_vars

\* ------------------------------------------------ claims on the queries
\* the query `op` has been called and has ended
GitDone(op) == gitResult # <<>> /\ gitCall.op = op

\* the query ran its commands and none failed
GitAnswered == workspace /\ gitCall.failed = 0

\* the maxLength in force in the call of getGitDiff
MaxLengthInForce ==
    IF gitCall.maxLength = <<>> THEN defaultMaxLength ELSE gitCall.maxLength[1]

\* the text ends with the truncation marker
EndsWithMarker(t) ==
    /\ Len(t) >= Len(txt_Truncated)
    /\ SubSeq(t, Len(t) - Len(txt_Truncated) + 1, Len(t)) = txt_Truncated

\* the staged diff under its label, closed by a newline
LabelledDiff == txt_StagedLabel \o gitCall.stdout \o <<"\n">>

\* C17: for every staged diff and every maxLength >= 0, getGitDiff returns a
\* text no longer than maxLength + length of the truncation marker + length
\* of the label, and a result longer than maxLength ends with the marker.
C17_DiffLengthBounded ==
    GitDone("getGitDiff") =>
        /\ ~gitResult[1].raised
        /\ Len(gitResult[1].value)
              <= MaxLengthInForce + Len(txt_Truncated) + Len(txt_StagedLabel)
        /\ (Len(gitResult[1].value) > MaxLengthInForce
              => EndsWithMarker(gitResult[1].value))

\* a diff was cut inside its body: the result is maxLength characters and the marker
C17_Witness ==
    /\ GitDone("getGitDiff")
    /\ GitAnswered
    /\ MaxLengthInForce > Len(txt_StagedLabel)
    /\ Len(LabelledDiff) > MaxLengthInForce
    /\ Len(gitResult[1].value) = MaxLengthInForce + Len(txt_Truncated)
    /\ EndsWithMarker(gitResult[1].value)

\* C18 as stated: for every non-empty staged diff whose length is less than
\* maxLength, getGitDiff returns the label followed by the untruncated diff
\* (closed by its newline), with no truncation marker and nothing cut off.
C18_Original_ShorterDiffUntouched ==
    (/\ GitDone("getGitDiff")
     /\ GitAnswered
     /\ gitCall.stdout # <<>>
     /\ Len(gitCall.stdout) < MaxLengthInForce)
    => gitResult[1].value = LabelledDiff

\* C18 amended: for every non-empty staged diff whose labelled form (label,
\* diff, closing newline) is no longer than maxLength, getGitDiff returns
\* exactly that labelled form, with no truncation marker and nothing cut off.
C18_LabelledFormThatFitsUntouched ==
    (/\ GitDone("getGitDiff")
     /\ GitAnswered
     /\ gitCall.stdout # <<>>
     /\ Len(gitCall.stdout) + Len(txt_StagedLabel) + 1 <= MaxLengthInForce)
    => /\ ~gitResult[1].raised
       /\ gitResult[1].value = LabelledDiff
       /\ ~EndsWithMarker(gitResult[1].value)

\* a labelled form of exactly maxLength characters came back untouched
C18_Witness ==
    /\ GitDone("getGitDiff")
    /\ GitAnswered
    /\ gitCall.stdout # <<>>
    /\ gitCall.maxLength # <<>>
    /\ Len(LabelledDiff) = MaxLengthInForce
    /\ gitResult[1].value = LabelledDiff

\* C19: hasStagedChanges returns false when there is no workspace or the
\* staged-name query fails, and otherwise returns true iff the staged-name
\* query yields at least one non-empty path.
C19_TrueIffSomeStagedPath ==
    GitDone("hasStagedChanges") =>
        /\ ~gitResult[1].raised
        /\ gitResult[1].value
             = (GitAnswered /\ \E i \in 1..Len(gitCall.paths) : gitCall.paths[i] # <<>>)

\* the safe default of each read query
SafeDefault(op) ==
    CASE op = "isGitRepository" -> FALSE
      [] op = "getCurrentBranch" -> <<>>
      [] op = "getGitStatus" -> [modified |-> <<>>, untracked |-> <<>>, staged |-> <<>>]
      [] op = "hasStagedChanges" -> FALSE
      [] op = "getGitDiff" -> <<>>

\* C20: every read query (isGitRepository, getCurrentBranch, the staged
\* names of getGitStatus, hasStagedChanges, getGitDiff) never raises, and
\* returns its safe default (false, null, empty list, false, empty text)
\* both when there is no workspace and when the command fails.
C20_SafeDefaultNeverRaises ==
    gitResult # <<>> =>
        /\ ~gitResult[1].raised
        /\ (~workspace \/ gitCall.failed # 0)
             => gitResult[1].value = SafeDefault(gitCall.op)

\* the branch query failed inside a workspace and answered null
C20_Witness ==
    /\ GitDone("getCurrentBranch")
    /\ workspace
    /\ gitCall.failed # 0
    /\ ~gitResult[1].raised
    /\ gitResult[1].value = <<>>

\* ==================================================== repository writes
\* A message is the sequence of its pieces: single characters where the code
\* or a claim looks inside the text, whole literals elsewhere.
git_CommandFailed == <<"C","o","m","m","a","n","d"," ","f","a","i","l","e","d",":"," ">>
git_SwitchCreate == <<"g","i","t"," ","s","w","i","t","c","h"," ","-","c"," ","\"">>
git_CloseQuote == <<"\"","\n">>
git_NotARepository == <<"f","a","t","a","l",":"," ","n","o","t"," ","a"," ","g","i","t"," ","r","e","p","o","s","i","t","o","r","y"," ","(","o","r"," ","a","n","y"," ","o","f"," ","t","h","e"," ","p","a","r","e","n","t"," ","d","i","r","e","c","t","o","r","i","e","s",")",":"," ",".","g","i","t">>

\* class GitOperationError
GitOperationError(message, code) == [code |-> code, message |-> message]

\* variant of GitSwitchCreate: the branch is created and not checked out
GitSwitchCreate_NoCheckout(repo, name, refused) ==
    IF ~repo.isRepo \/ name \in repo.branches \/ refused
    THEN [ok |-> FALSE, stderr |-> git_NotARepository, repo |-> repo]
    ELSE [ok |-> TRUE, stderr |-> <<>>, repo |-> [repo EXCEPT !.branches = @ \cup {name}]]

\* what `git switch -c "name"` does in the repository: it fails outside a
\* repository, on a branch that exists, and (refused) for any other reason;
\* otherwise the branch is created and checked out
GitSwitchCreate(repo, name, refused) ==
    IF ~repo.isRepo THEN [ok |-> FALSE, stderr |-> git_NotARepository, repo |-> repo]
    ELSE IF name \in repo.branches
    THEN [ok |-> FALSE,
          stderr |-> <<"f","a","t","a","l",":"," ","a"," ","b","r","a","n","c","h"," ","n","a","m","e","d"," ","'">> \o name \o <<"'"," ","a","l","r","e","a","d","y"," ","e","x","i","s","t","s">>,
          repo |-> repo]
    ELSE IF refused
    THEN [ok |-> FALSE, stderr |-> <<"f","a","t","a","l",":"," ","'">> \o name \o <<"'"," ","i","s"," ","n","o","t"," ","a"," ","v","a","l","i","d"," ","b","r","a","n","c","h"," ","n","a","m","e">>, repo |-> repo]
    ELSE [ok |-> TRUE, stderr |-> <<>>,
          repo |-> [repo EXCEPT !.branches = @ \cup {name}, !.head = <<name>>]]

\* a git command line the program has run
Command(line, name) == [call |-> "exec", line |-> line, name |-> name]

\* a call of the program that is no git command
Call(what) == [call |-> what, line |-> "", name |-> <<>>]

\* how a write ended: the error thrown if any, the commands run, the repository after
Ended(error, commands, repo) == [error |-> error, commands |-> commands, repo |-> repo]

\* variant of CreateBranchError: the failure is passed on without a code
CreateBranchError_Unclassified(errorMessage, name) == GitOperationError(errorMessage, "")

\* GitOperations.createBranch: the error its catch block throws for the
\* message of the failed command
CreateBranchError(errorMessage, name) ==
    IF includes(errorMessage, <<"a","l","r","e","a","d","y"," ","e","x","i","s","t","s">>)
    THEN GitOperationError(<<"Branch '">> \o name \o <<"' already exists">>, "BRANCH_EXISTS")
    ELSE IF includes(errorMessage, <<"n","o","t"," ","a"," ","g","i","t"," ","r","e","p","o","s","i","t","o","r","y">>)
    THEN GitOperationError(<<"Not a Git repository">>, "NOT_GIT_REPO")
    ELSE GitOperationError(<<"Failed to create branch: ">> \o errorMessage, "CREATE_FAILED")

\* variant of createBranch: the workspace folder is not checked
createBranch_NoWorkspaceCheck(ws, name, repo, refused) ==
    LET validation == validateBranchName(name)
        run == GitSwitchCreate(repo, name, refused)
    IN  IF ~validation.valid
        THEN Ended(<<GitOperationError(validation.error, "INVALID_NAME")>>, <<>>, repo)
        ELSE IF run.ok THEN Ended(<<>>, <<Command("git switch -c", name)>>, run.repo)
        ELSE Ended(<<CreateBranchError(git_CommandFailed \o git_SwitchCreate \o name
                                        \o git_CloseQuote \o run.stderr, name)>>,
                   <<Command("git switch -c", name)>>, repo)

\* variant of createBranch: a failed command is not reported
createBranch_SwallowsFailure(ws, name, repo, refused) ==
    LET run == GitSwitchCreate(repo, name, refused)
    IN  Ended(<<>>, <<Command("git switch -c", name)>>, run.repo)

\* GitOperations.createBranch
createBranch(ws, name, repo, refused) ==
    LET validation == validateBranchName(name)
        run == GitSwitchCreate(repo, name, refused)
    IN  IF ~validation.valid
        THEN Ended(<<GitOperationError(IF validation.error # <<>> THEN validation.error
                                       ELSE <<"Invalid branch name">>, "INVALID_NAME")>>,
                   <<>>, repo)
        ELSE IF ~ws
        THEN Ended(<<GitOperationError(<<"No workspace folder found">>, "NO_WORKSPACE")>>,
                   <<>>, repo)
        ELSE IF run.ok THEN Ended(<<>>, <<Command("git switch -c", name)>>, run.repo)
        ELSE Ended(<<CreateBranchError(git_CommandFailed \o git_SwitchCreate \o name
                                        \o git_CloseQuote \o run.stderr, name)>>,
                   <<Command("git switch -c", name)>>, repo)

\* variant of branchExists: the answer is always no
branchExists_Never(ws, failed, stdout) == FALSE

\* GitOperations.branchExists; stdout is what `git branch --list` prints
branchExists(ws, failed, stdout) ==
    IF ~ws THEN FALSE
    ELSE IF failed # 0 THEN FALSE
    ELSE Len(trim(stdout)) > 0

\* a message the program shows: its level, its text, its buttons
Message(level, text, buttons) == [level |-> level, text |-> text, buttons |-> buttons]

\* how a UIHandlers step ended: messages shown, commands run, repository after
Stepped(messages, commands, repo) == [messages |-> messages, commands |-> commands, repo |-> repo]

\* variant of switchToBranch: the branch is created instead
switchToBranch_Creates(ws, name, repo, refused) ==
    LET run == GitSwitchCreate(repo, name, refused)
    IN  Stepped(<<Message("info", <<"BranchAI: Successfully switched to branch '">>
                                   \o name \o <<"'">>, <<>>)>>,
                <<Command("git switch -c", name)>>, run.repo)

\* UIHandlers.switchToBranch
switchToBranch(ws, name, repo, refused) ==
    LET run == (IF ~repo.isRepo THEN [ok |-> FALSE, stderr |-> git_NotARepository, repo |-> repo]
                ELSE IF name \notin repo.branches \/ refused
                THEN [ok |-> FALSE, stderr |-> <<"f","a","t","a","l",":"," ","i","n","v","a","l","i","d"," ","r","e","f","e","r","e","n","c","e",":"," ">> \o name, repo |-> repo]
                ELSE [ok |-> TRUE, stderr |-> <<>>, repo |-> [repo EXCEPT !.head = <<name>>]])
    IN  IF ~ws
        THEN Stepped(<<Message("error", <<"No workspace folder found">>, <<>>)>>, <<>>, repo)
        ELSE IF run.ok
        THEN Stepped(<<Message("info", <<"BranchAI: Successfully switched to branch '">>
                                        \o name \o <<"'">>, <<>>)>>,
                     <<Command("git switch", name)>>, run.repo)
        ELSE Stepped(<<Message("error", <<"BranchAI: Failed to switch to branch: ">>
                                         \o git_CommandFailed \o <<"g","i","t"," ","s","w","i","t","c","h"," ","\"">> \o name
                                         \o git_CloseQuote \o run.stderr, <<"Cancel">>)>>,
                     <<Command("git switch", name)>>, repo)

\* ---- direct calls of the two writes
\* the names passed: two plain ones, one starting with a dot, a reserved one, the empty one
WriteNames == {<<"a">>, <<"b">>, <<".", "a">>, <<"H","E","A","D">>, <<>>}

InitWrite ==
    /\ GenIdle
    /\ settings = NoSettings
    /\ loaded = <<>>
    /\ validated = <<>>
    /\ branchName = <<>>
    /\ nameCheck = <<>>
    /\ workspace \in BOOLEAN
    /\ gitCall = NoGitCall
    /\ gitResult = <<>>
    /\ ui = NoUI
    /\ git \in ({[NoRepository EXCEPT !.isRepo = r, !.branches = bs, !.head = h] :
                    r \in BOOLEAN, bs \in {{}, {<<"a">>}}, h \in {<<>>}})
    /\ issued = <<>>
    /\ shown = <<>>
    /\ net = NoNet
    /\ svc = NoSvc

WriteFrame == UNCHANGED <<genVars, svcVars, settings, loaded, validated, nameCheck, workspace, ui>>

\* one call of GitOperations.createBranch
CreateBranchCall ==
    /\ \E name \in WriteNames, refused \in BOOLEAN :
        LET e == createBranch(workspace, name, git, refused)
        IN  /\ branchName' = name
            /\ gitCall' = [NoGitCall EXCEPT !.op = "createBranch"]
            /\ gitResult' = <<IF e.error = <<>> THEN Ret(<<>>)
                              ELSE [raised |-> TRUE, value |-> e.error[1]]>>
            /\ issued' = e.commands
            /\ shown' = <<>>
            /\ git' = e.repo
    /\ WriteFrame

\* one call of UIHandlers.switchToBranch
SwitchToBranchCall ==
    /\ \E name \in WriteNames, refused \in BOOLEAN :
        LET e == switchToBranch(workspace, name, git, refused)
        IN  /\ branchName' = name
            /\ gitCall' = [NoGitCall EXCEPT !.op = "switchToBranch"]
            /\ gitResult' = <<Ret(<<>>)>>
            /\ issued' = e.commands
            /\ shown' = e.messages
            /\ git' = e.repo
    /\ WriteFrame

NextWrite ==
    \/ CreateBranchCall
    \/ SwitchToBranchCall

SpecWrite == InitWrite /\ [][NextWrite]_vars

\* ------------------------------------------------- claims on the writes
\* the name breaks one of the rules of validateBranchName
BreaksSomeRule(s) ==
    \/ RuleEmpty(s) \/ RuleTooLong(s) \/ RuleInvalidChars(s)
    \/ RuleDots(s) \/ RuleOuterWhitespace(s) \/ RuleReserved(s)

\* the write `op` was called without a workspace folder and has ended
WriteDoneNoWorkspace(op) == gitResult # <<>> /\ gitCall.op = op /\ ~workspace

\* the message switchToBranch shows without a workspace folder
NoWorkspaceShown ==
    /\ Len(shown) = 1
    /\ shown[1].level = "error"
    /\ shown[1].text = <<"No workspace folder found">>

\* C21 as stated: with no workspace folder, createBranch and switchToBranch
\* each end in the no-workspace error without running any git command,
\* whatever branch name is passed.
C21_Original_NoWorkspaceErrorWhateverName ==
    /\ WriteDoneNoWorkspace("createBranch") =>
          /\ issued = <<>>
          /\ gitResult[1].raised
          /\ gitResult[1].value.code = "NO_WORKSPACE"
    /\ WriteDoneNoWorkspace("switchToBranch") =>
          /\ issued = <<>>
          /\ NoWorkspaceShown

\* C21 amended: with no workspace folder, neither write runs a git command;
\* createBranch throws the invalid-name error for a name that breaks a rule
\* of validateBranchName and the no-workspace error for every other name;
\* switchToBranch shows the no-workspace error whatever the name.
C21_NoCommandWithoutWorkspace ==
    /\ WriteDoneNoWorkspace("createBranch") =>
          /\ issued = <<>>
          /\ git.head = <<>>
          /\ gitResult[1].raised
          /\ gitResult[1].value.code
               = (IF BreaksSomeRule(branchName) THEN "INVALID_NAME" ELSE "NO_WORKSPACE")
    /\ WriteDoneNoWorkspace("switchToBranch") =>
          /\ issued = <<>>
          /\ git.head = <<>>
          /\ NoWorkspaceShown

\* createBranch was called with a valid name and no workspace folder
C21_Witness ==
    /\ WriteDoneNoWorkspace("createBranch")
    /\ branchName = <<"b">>
    /\ git.isRepo
    /\ gitResult[1].raised
    /\ gitResult[1].value.code = "NO_WORKSPACE"
    /\ issued = <<>>

\* createBranch ran its git command and the command failed
CreationCommandFailed ==
    /\ gitCall.op = "createBranch"
    /\ gitResult # <<>>
    /\ gitResult[1].raised
    /\ issued = <<Command("git switch -c", branchName)>>

\* C31: a call of createBranch that fails leaves the checked-out branch and
\* the set of branches as they were before the call, and when it is the
\* creation command that failed, the error thrown carries one of the codes
\* BRANCH_EXISTS, NOT_GIT_REPO and CREATE_FAILED.
C31_FailedCreationChangesNothing ==
    [][(CreateBranchCall /\ gitResult'[1].raised) =>
          /\ git'.head = git.head
          /\ git'.branches = git.branches
          /\ Len(issued') <= 1
          /\ CreationCommandFailed' =>
                gitResult'[1].value.code \in {"BRANCH_EXISTS", "NOT_GIT_REPO", "CREATE_FAILED"}]_vars

\* the creation of a branch that exists failed while another branch was checked out
C31_Witness ==
    /\ CreationCommandFailed
    /\ gitResult[1].value.code = "BRANCH_EXISTS"
    /\ branchName = <<"a">>
    /\ git.head = <<"b">>
    /\ git.branches = {<<"a">>, <<"b">>}

\* ============================================================ UIHandlers
\* variant of StopAtRepo: the command goes on outside a repository
StopAtRepo_Never(isGitRepo) == FALSE

\* generateAndSelectBranch, generateBranchFromCommitMessage: `!isGitRepo`
StopAtRepo(isGitRepo) == ~isGitRepo

\* variant of StopAtStaged: the command goes on without staged changes
StopAtStaged_Never(hasStaged) == FALSE

\* generateAndSelectBranch: `!hasStaged`
StopAtStaged(hasStaged) == ~hasStaged

\* generateAndSelectBranch, generateBranchFromCommitMessage: `!validation.valid`
StopAtConfig(validation) == ~validation.valid

NotARepositoryMessage ==
    Message("error",
            <<"BranchAI: Not a Git repository. Please open a Git repository to use this feature.">>,
            <<"Open Settings", "Cancel">>)

NoStagedChangesMessage ==
    Message("warning",
            <<"BranchAI: No staged changes detected. Please stage your changes using 'git add' or the VS Code Source Control view.">>,
            <<"Open Source Control", "Cancel">>)

\* variant of IncompleteMessage: only the first missing field is named
IncompleteMessage_FirstOnly(validation) ==
    Message("warning",
            <<"BranchAI: Configuration incomplete. Please configure: ">>
                \o join(slice0(validation.missing, 1), msg_CommaSpace),
            <<"Open Settings", "Cancel">>)

\* the warning of an invalid configuration
IncompleteMessage(validation) ==
    Message("warning",
            <<"BranchAI: Configuration incomplete. Please configure: ">>
                \o join(validation.missing, msg_CommaSpace),
            <<"Open Settings", "Cancel">>)

CancelledMessage == Message("info", <<"BranchAI: Operation cancelled">>, <<>>)

\* the label of the item showBranchSelection adds
lbl_Cancel == <<"C","a","n","c","e","l">>

\* ---- what git answers to the queries of a command
\* every git command fails outside a repository
ProbeFails(repo) == IF repo.isRepo THEN 0 ELSE 1

\* the output of `git branch --show-current`
CurrentBranchOutput(repo) == IF repo.head = <<>> THEN <<>> ELSE repo.head[1] \o <<"\n">>

\* where a command stands after its checks: why it stopped ("" when it goes
\* on), the calls made, the messages shown, the configuration and its validation
Checked(stop, calls, messages, aiConfig, validation) ==
    [stop |-> stop, calls |-> calls, messages |-> messages,
     aiConfig |-> aiConfig, validation |-> validation]

\* generateAndSelectBranch up to the progress indicator
DiffChecks(ws, repo, st) ==
    LET isGitRepo == isGitRepository(ws, ProbeFails(repo)).value
        hasStaged == hasStagedChanges(ws, ProbeFails(repo), NameOnlyOutput(repo.staged)).value
        aiConfig == loadAIConfiguration(st)
        validation == validateConfiguration(aiConfig)
        calls == <<Call("isGitRepository"), Call("hasStagedChanges"),
                   Call("loadAIConfiguration"), Call("validateConfiguration")>>
    IN  IF StopAtRepo(isGitRepo)
        THEN Checked("repo", SubSeq(calls, 1, 1), <<NotARepositoryMessage>>, <<>>, <<>>)
        ELSE IF StopAtStaged(hasStaged)
        THEN Checked("staged", SubSeq(calls, 1, 2), <<NoStagedChangesMessage>>, <<>>, <<>>)
        ELSE IF StopAtConfig(validation)
        THEN Checked("config", calls, <<IncompleteMessage(validation)>>,
                     <<aiConfig>>, <<validation>>)
        ELSE Checked("", calls, <<>>, <<aiConfig>>, <<validation>>)

\* generateBranchFromCommitMessage up to the input box
CommitChecks(ws, repo, st) ==
    LET isGitRepo == isGitRepository(ws, ProbeFails(repo)).value
        aiConfig == loadAIConfiguration(st)
        validation == validateConfiguration(aiConfig)
        calls == <<Call("isGitRepository"),
                   Call("loadAIConfiguration"), Call("validateConfiguration")>>
    IN  IF StopAtRepo(isGitRepo)
        THEN Checked("repo", SubSeq(calls, 1, 1), <<NotARepositoryMessage>>, <<>>, <<>>)
        ELSE IF StopAtConfig(validation)
        THEN Checked("config", calls, <<IncompleteMessage(validation)>>,
                     <<aiConfig>>, <<validation>>)
        ELSE Checked("", calls, <<>>, <<aiConfig>>, <<validation>>)

\* `if (currentBranch) context += ...`
CurrentBranchLine(currentBranch) ==
    IF currentBranch # <<>> /\ currentBranch[1] # <<>>
    THEN <<"Current branch: ">> \o currentBranch[1]
    ELSE <<>>

\* variant of UseFallback: the file lists are never used
UseFallback_Never(gitDiff) == FALSE

\* generateAndSelectBranch: the else branch of `if (gitDiff)`
UseFallback(gitDiff) == gitDiff = <<>>

\* generateAndSelectBranch: the context it builds and the queries it makes for it
DiffContext(ws, repo) ==
    LET currentBranch == getCurrentBranch(ws, ProbeFails(repo), CurrentBranchOutput(repo)).value
        gitDiff == getGitDiff(ws, IF repo.diffFails THEN 1 ELSE ProbeFails(repo),
                              repo.diff, <<>>).value
        gitStatus == getGitStatus(ws, ProbeFails(repo), repo.modified, <<>>,
                                  NameOnlyOutput(repo.staged)).value
    IN  [context |-> CurrentBranchLine(currentBranch)
                     \o (IF UseFallback(gitDiff) THEN ((IF Len(gitStatus.staged) > 0
                                                        THEN <<"\nStaged files: ">> \o join(slice0(gitStatus.staged, 5), msg_CommaSpace)
                                                        ELSE <<>>)
                                                       \o (IF Len(gitStatus.modified) > 0
                                                           THEN <<"\nModified files: ">> \o join(slice0(gitStatus.modified, 5), msg_CommaSpace)
                                                           ELSE <<>>))
                         ELSE <<"\n\n">> \o gitDiff),
         calls |-> <<Call("getCurrentBranch"), Call("getGitDiff")>>
                   \o (IF UseFallback(gitDiff) THEN <<Call("getGitStatus")>> ELSE <<>>)]

\* UIHandlers.handleAIServiceError
handleAIServiceError(error) ==
    LET message == <<"BranchAI: ">> \o error.message
    IN  CASE error.code = "CONFIG_ERROR" ->
                Message("warning", message, <<"Open Settings", "Cancel">>)
          [] error.code = "TIMEOUT_ERROR" ->
                Message("error",
                        message \o <<". Please check your network connection and try again.">>,
                        <<"Open Settings", "Cancel">>)
          [] error.code = "API_ERROR" ->
                Message("error",
                        message \o <<". Please check your API configuration and try again.">>,
                        <<"Open Settings", "Cancel">>)
          [] OTHER -> Message("error", message, <<"Cancel">>)

\* UIHandlers.handleGitOperationError
handleGitOperationError(error) ==
    LET message == <<"BranchAI: ">> \o error.message
    IN  CASE error.code = "BRANCH_EXISTS" -> Message("warning", message, <<"Cancel">>)
          [] error.code = "NOT_GIT_REPO" -> Message("error", message, <<"Cancel">>)
          [] error.code = "INVALID_NAME" -> Message("warning", message, <<"Cancel">>)
          [] OTHER -> Message("error", message, <<"Cancel">>)

CreatedMessage(name) ==
    Message("info",
            <<"BranchAI: Successfully created and switched to branch '">> \o name \o <<"'">>,
            <<>>)

\* variant of IsCancel: the added Cancel item is taken for a suggestion
IsCancel_OnlyDismissed(selected) == selected = <<>>

\* showBranchSelection: `!selected || selected.label === 'Cancel'`
IsCancel(selected) == selected = <<>> \/ selected[1] = lbl_Cancel

\* variant of validateInput: the length is not checked
validateInput_NoLengthCheck(value) ==
    IF Len(trim(value)) = 0 THEN <<"Commit message cannot be empty">> ELSE <<>>

\* generateBranchFromCommitMessage: validateInput of the input box, the
\* message for a value it refuses and <<>> (null) for one it accepts
validateInput(value) ==
    IF Len(value) = 0 \/ Len(trim(value)) = 0
    THEN <<"Commit message cannot be empty">>
    ELSE IF Len(trim(value)) > maxCommitMessageLength
    THEN <<"Commit message is too long (max 2000 characters)">>
    ELSE <<>>

\* ---- the environment of one command
m_Branch == <<"m">>

InitFlow ==
    /\ GenIdle
    /\ settings \in ({[NoSettings EXCEPT !.apiKey = <<"test-key">>],
                      NoSettings,
                      [NoSettings EXCEPT !.apiEndpoint = <<"">>],
                      [NoSettings EXCEPT !.apiKey = <<"test-key">>, !.model = <<"">>],
                      [NoSettings EXCEPT !.apiKey = <<"test-key">>, !.model = <<"gpt-5.1">>,
                                         !.reasoningEffort = <<"invalid-value">>],
                      [NoSettings EXCEPT !.apiKey = <<"test-key">>, !.suggestionCount = <<1>>]})
    /\ loaded = <<>>
    /\ validated = <<>>
    /\ branchName = <<>>
    /\ nameCheck = <<>>
    /\ workspace \in BOOLEAN
    /\ gitCall = NoGitCall
    /\ gitResult = <<>>
    /\ ui \in {[NoUI EXCEPT !.cmd = c] : c \in {"diff", "commit"}}
    /\ git \in ({[isRepo |-> r, staged |-> sp, modified |-> md,
                  diff |-> IF sp = <<>> THEN <<>> ELSE <<"d", "\n">>,
                  diffFails |-> df, branches |-> {m_Branch} \cup bs, head |-> <<m_Branch>>] :
                    r \in BOOLEAN, sp \in {<<>>, << <<"s">> >>}, md \in {<<>>, <<"c", "\n">>},
                    df \in BOOLEAN, bs \in {{}, {<<"a">>}}})
    /\ issued = <<>>
    /\ shown = <<>>
    /\ net = NoNet
    /\ svc = NoSvc

\* the call `aiService.generateBranchNames(context, commitMessage, aiConfig.suggestionCount)`
CallGenerate(aiConfig) ==
    /\ config' = aiConfig
    /\ count' = <<aiConfig.suggestionCount>>
    /\ pc' = "start"
    /\ UNCHANGED <<attempt, suggestionCount, lastError, result, attempts, delays, log, outcome>>

\* generateAndSelectBranch, up to its call of generateBranchNames
GenerateAndSelectBranch ==
    /\ ui.cmd = "diff"
    /\ ui.step = "idle"
    /\ LET c == DiffChecks(workspace, git, settings)
           g == DiffContext(workspace, git)
       IN  /\ shown' = c.messages
           /\ loaded' = c.aiConfig
           /\ validated' = c.validation
           /\ IF c.stop # ""
              THEN /\ ui' = [ui EXCEPT !.step = "done"]
                   /\ issued' = c.calls
                   /\ UNCHANGED genVars
              ELSE /\ ui' = [ui EXCEPT !.step = "generating", !.context = g.context]
                   /\ issued' = c.calls \o g.calls \o <<Call("generateBranchNames")>>
                   /\ CallGenerate(c.aiConfig[1])
    /\ UNCHANGED <<svcVars, settings, branchName, nameCheck, workspace, gitCall, gitResult, git>>

\* generateBranchFromCommitMessage, up to its input box
GenerateBranchFromCommitMessage ==
    /\ ui.cmd = "commit"
    /\ ui.step = "idle"
    /\ LET c == CommitChecks(workspace, git, settings)
       IN  /\ shown' = c.messages
           /\ loaded' = c.aiConfig
           /\ validated' = c.validation
           /\ issued' = c.calls
           /\ ui' = [ui EXCEPT !.step = IF c.stop # "" THEN "done" ELSE "input"]
    /\ UNCHANGED <<genVars, svcVars, settings, branchName, nameCheck, workspace, gitCall, gitResult, git>>

\* generateBranchFromCommitMessage: the input box closes, cancelled (<<>>) or
\* with the text typed, which it only returns when validateInput accepts it
\* (texts typed: a short one, an empty and a blank one, one of the greatest
\* length between blanks, one that is a letter longer)
InputBoxCloses ==
    /\ ui.step = "input"
    /\ \E commitMessage \in {<<>>} \cup
            {<<t>> : t \in {<<"f", "i", "x">>, <<>>, <<" ">>,
                            <<" ">> \o Pad(maxCommitMessageLength) \o <<"\n">>,
                            Pad(maxCommitMessageLength + 1)}} :
        /\ commitMessage # <<>> => validateInput(commitMessage[1]) = <<>>
        /\ IF commitMessage = <<>>
           THEN /\ shown' = Append(shown, CancelledMessage)
                /\ ui' = [ui EXCEPT !.step = "done"]
                /\ UNCHANGED <<issued, genVars>>
           ELSE LET g == (LET currentBranch == getCurrentBranch(workspace, ProbeFails(git), CurrentBranchOutput(git)).value
                          IN  [context |-> CurrentBranchLine(currentBranch),
                               calls |-> <<Call("getCurrentBranch")>>])
                IN  /\ ui' = [ui EXCEPT !.step = "generating", !.context = g.context,
                                        !.commitMessage = commitMessage]
                    /\ issued' = issued \o g.calls \o <<Call("generateBranchNames")>>
                    /\ CallGenerate(loaded[1])
                    /\ UNCHANGED shown
    /\ UNCHANGED <<svcVars, settings, loaded, validated, branchName, nameCheck, workspace,
                   gitCall, gitResult, git>>

\* generateBranchNames has ended: the quick pick opens on its suggestions,
\* or the catch block reports its error
GenerationEnds ==
    /\ ui.step = "generating"
    /\ pc = "done"
    /\ IF result.kind = "ok"
       THEN /\ ui' = [ui EXCEPT !.step = "picking", !.suggestions = result.value]
            /\ issued' = Append(issued, Call("showQuickPick"))
            /\ UNCHANGED shown
       ELSE /\ ui' = [ui EXCEPT !.step = "done"]
            /\ shown' = Append(shown, handleAIServiceError(result))
            /\ UNCHANGED issued
    /\ UNCHANGED <<genVars, svcVars, settings, loaded, validated, branchName, nameCheck, workspace,
                   gitCall, gitResult, git>>

\* showBranchSelection: the quick pick closes (pick 0: dismissed; the last
\* item is the added Cancel); UIHandlers.createBranch up to its call of
\* GitOperations.createBranch
QuickPickCloses ==
    /\ ui.step = "picking"
    /\ \E pick \in 0..(Len(ui.suggestions) + 1) :
        LET items == Append(ui.suggestions, lbl_Cancel)
            selected == IF pick = 0 THEN <<>> ELSE <<items[pick]>>
        IN  IF IsCancel(selected)
            THEN /\ shown' = Append(shown, CancelledMessage)
                 /\ ui' = [ui EXCEPT !.step = "done", !.selected = selected]
                 /\ UNCHANGED <<issued, branchName, nameCheck>>
            ELSE LET name == selected[1]
                     validation == validateBranchName(name)
                     exists == branchExists(workspace, ProbeFails(git), (IF name \in git.branches
                                                                         THEN (IF git.head = <<name>> THEN <<"*", " ">> ELSE <<" ", " ">>) \o name \o <<"\n">>
                                                                         ELSE <<>>))
                 IN  /\ branchName' = name
                     /\ nameCheck' = <<validation>>
                     /\ IF ~validation.valid
                        THEN /\ shown' = Append(shown, Message("error",
                                            <<"BranchAI: ">> \o validation.error, <<"Cancel">>))
                             /\ issued' = Append(issued, Call("validateBranchName"))
                             /\ ui' = [ui EXCEPT !.step = "done", !.selected = selected,
                                                     !.chosen = selected]
                        ELSE /\ issued' = issued \o <<Call("validateBranchName"),
                                                      Command("git branch --list", name)>>
                             /\ IF exists
                                THEN /\ shown' = Append(shown, (Message("warning",
                                                                        <<"Branch '">> \o name \o <<"' already exists. Would you like to switch to it?">>,
                                                                        <<"Switch", "Cancel">>)))
                                     /\ ui' = [ui EXCEPT !.step = "offer",
                                                             !.selected = selected,
                                                             !.chosen = selected]
                                ELSE /\ UNCHANGED shown
                                     /\ ui' = [ui EXCEPT !.step = "creating",
                                                             !.selected = selected,
                                                             !.chosen = selected]
    /\ UNCHANGED <<genVars, svcVars, settings, loaded, validated, workspace, gitCall, gitResult, git>>

\* UIHandlers.createBranch from its call of GitOperations.createBranch on
CreateChosenBranch ==
    /\ ui.step = "creating"
    /\ \E refused \in BOOLEAN :
        LET e == createBranch(workspace, ui.chosen[1], git, refused)
        IN  /\ issued' = issued \o <<Call("createBranch")>> \o e.commands
            /\ git' = e.repo
            /\ shown' = Append(shown, IF e.error = <<>> THEN CreatedMessage(ui.chosen[1])
                                      ELSE handleGitOperationError(e.error[1]))
    /\ ui' = [ui EXCEPT !.step = "done"]
    /\ UNCHANGED <<genVars, svcVars, settings, loaded, validated, branchName, nameCheck,
                   workspace, gitCall, gitResult>>

\* the async function of the command has returned: at the end of every path,
\* and in UIHandlers.createBranch with the `return` that follows the warning
\* of an existing branch, whose answer is handled in a `then` callback that
\* is not awaited
CommandReturned == ui.step \in {"done", "offer"}

\* the warning of an existing branch is answered: Switch runs switchToBranch
SwitchOfferAnswered ==
    /\ ui.step = "offer"
    /\ \E selection \in {"Switch", "Cancel", ""}, refused \in BOOLEAN :
        /\ (IF selection = "Switch"
            THEN LET e == switchToBranch(workspace, ui.chosen[1], git, refused)
                 IN  /\ issued' = issued \o <<Call("switchToBranch")>> \o e.commands
                     /\ git' = e.repo
                     /\ shown' = shown \o e.messages
            ELSE UNCHANGED <<issued, git, shown>>)
        /\ ui' = [ui EXCEPT !.step = "done", !.selection = <<selection>>]
    /\ UNCHANGED <<genVars, svcVars, settings, loaded, validated, branchName, nameCheck,
                   workspace, gitCall, gitResult>>

\* another process creates a branch while the quick pick is open or between
\* the existence check and the creation
ExternalCreate ==
    /\ ui.step \in {"picking", "creating"}
    /\ git.isRepo
    /\ \E name \in {<<"b">>} \ git.branches :
        git' = [git EXCEPT !.branches = @ \cup {name}]
    /\ UNCHANGED <<genVars, svcVars, settings, loaded, validated, branchName, nameCheck,
                   workspace, gitCall, gitResult, ui, issued, shown>>

NextFlow ==
    \/ GenerateAndSelectBranch
    \/ GenerateBranchFromCommitMessage
    \/ InputBoxCloses
    \/ Validate
    \/ AttemptFailsWith({[kind |-> "timeout", status |-> 0, body |-> <<>>],
                          [kind |-> "http", status |-> 401, body |-> <<>>]})
    \/ AttemptSucceedsWith({[kind |-> "ok", status |-> 200, body |-> r] :
                                r \in {<<"a", "\n", "b">>, <<".", "a", "\n">> \o lbl_Cancel, <<>>}})
    \/ SleepElapsed
    \/ GenerationEnds
    \/ QuickPickCloses
    \/ CreateChosenBranch
    \/ SwitchOfferAnswered
    \/ ExternalCreate

SpecFlow == InitFlow /\ [][NextFlow]_vars

\* ------------------------------------------------ claims on the commands
\* the command has been triggered
FlowStarted == ui.step # "idle"

\* isGitRepository answers false: no workspace folder, or no repository in it
RepoProbeFalse == ~workspace \/ ~git.isRepo

\* the command has made the call
Called(what) == \E i \in 1..Len(issued) : issued[i].call = what

\* the command has run the git command line
Ran(line) == \E i \in 1..Len(issued) : issued[i].call = "exec" /\ issued[i].line = line

\* no request has gone to the AI service
NoNetworkAttempt == attempts = 0 /\ pc = "idle" /\ ~Called("generateBranchNames")

\* the command has changed nothing in the repository
NoMutation == ~Ran("git switch -c") /\ ~Ran("git switch") /\ git.head = <<m_Branch>>

\* C22: in both commands, if isGitRepository is false the command stops with
\* the "not a Git repository" message: no staged-changes query, no
\* configuration load, no network attempt, no mutation of the repository.
C22_NotARepositoryStops ==
    (FlowStarted /\ RepoProbeFalse) =>
        /\ ui.step = "done"
        /\ shown = <<NotARepositoryMessage>>
        /\ ~Called("hasStagedChanges")
        /\ ~Called("loadAIConfiguration")
        /\ loaded = <<>>
        /\ NoNetworkAttempt
        /\ NoMutation

\* a command stopped in a workspace folder that holds no repository
C22_Witness ==
    /\ ui.cmd = "commit"
    /\ ui.step = "done"
    /\ workspace
    /\ ~git.isRepo
    /\ shown = <<NotARepositoryMessage>>

\* hasStagedChanges answers false
StagedQueryFalse ==
    ~hasStagedChanges(workspace, ProbeFails(git), NameOnlyOutput(git.staged)).value

ConfigComplete == validateConfiguration(loadAIConfiguration(settings)).valid

\* the context lists the staged files / the modified files
ListsStagedFiles == includes(ui.context, <<"\nStaged files: ">>)

ListsModifiedFiles == includes(ui.context, <<"\nModified files: ">>)

C25_InvalidConfigurationStopsAndNamesFields ==
    (validated # <<>> /\ ~validated[1].valid) =>
        /\ ui.step = "done"
        /\ NoNetworkAttempt
        /\ NoMutation
        /\ Len(shown) = 1
        /\ \A i \in 1..Len(validated[1].missing) :
              includes(shown[1].text, validated[1].missing[i])
        /\ \A i \in 1..Len(validated[1].invalid) :
              includes(shown[1].text, validated[1].invalid[i])

\* a command stopped on a configuration with two missing fields
C25_Witness ==
    /\ ui.step = "done"
    /\ validated # <<>>
    /\ Len(validated[1].missing) = 2
    /\ includes(shown[1].text, fld_ApiKey)
    /\ includes(shown[1].text, fld_ApiEndpoint)
    /\ attempts = 0

\* the command has reported the failure of generateBranchNames
GenerationFailureReported ==
    ui.step = "done" /\ Called("generateBranchNames") /\ result.kind = "error"

\* the last piece of the last message shown
LastPieceShown == LET text == shown[Len(shown)].text IN text[Len(text)]

\* C26: when generation fails, the message of the command tells the cause:
\* a generation whose attempts timed out is reported with the timeout
\* message, one that failed on an API error with the API message.
C26_MessageTellsTheCause ==
    GenerationFailureReported =>
        /\ lastError.code = "TIMEOUT_ERROR"
             => LastPieceShown = ". Please check your network connection and try again."
        /\ lastError.code = "API_ERROR"
             => LastPieceShown = ". Please check your API configuration and try again."

\* the quick pick has closed
QuickPickClosed == Called("showQuickPick") /\ ui.step # "picking"

\* the user dismissed the quick pick or selected Cancel
UserCancelled == ui.selected = <<>> \/ ui.selected[1] = lbl_Cancel

\* C27: if the user selects Cancel or dismisses the quick pick, the command
\* ends without running any git command: the branches and the checked-out
\* branch are as they were.
C27_CancelRunsNoCommand ==
    (QuickPickClosed /\ UserCancelled) =>
        /\ ui.step = "done"
        /\ \A i \in 1..Len(issued) : issued[i].call # "exec"
        /\ git.head = <<m_Branch>>
        /\ lbl_Cancel \notin git.branches

\* the user selected the Cancel item
C27_Witness ==
    /\ QuickPickClosed
    /\ ui.selected = <<lbl_Cancel>>
    /\ ui.step = "done"
    /\ shown[Len(shown)] = CancelledMessage

\* C28: `git switch -c` and `git switch` are run only for a name that passes
\* validateBranchName: if the name selected breaks a rule, the command ends
\* with an error message and no mutation of the repository.
C28_OnlyValidNamesReachGit ==
    /\ \A i \in 1..Len(issued) :
          (issued[i].call = "exec" /\ issued[i].line \in {"git switch -c", "git switch"})
            => ~BreaksSomeRule(issued[i].name)
    /\ (QuickPickClosed /\ ~UserCancelled /\ BreaksSomeRule(ui.selected[1])) =>
          /\ ui.step = "done"
          /\ shown[Len(shown)].level = "error"
          /\ NoMutation
          /\ ui.selected[1] \notin git.branches

\* the user selected a name that starts with a dot
C28_Witness ==
    /\ QuickPickClosed
    /\ ui.selected = << <<".", "a">> >>
    /\ ui.step = "done"
    /\ shown[Len(shown)].level = "error"

\* the warning that offers to switch has been shown
SwitchOffered == \E i \in 1..Len(shown) : shown[i].buttons = <<"Switch", "Cancel">>

CreationFailedOnExistingBranch ==
    /\ ui.step = "done"
    /\ Ran("git switch -c")
    /\ ui.chosen[1] \in git.branches
    /\ git.head # ui.chosen

\* C30: whenever a creation fails because the branch exists, the user is
\* offered to switch to it, also when the branch came into existence between
\* the existence check and `git switch -c`.
C30_FailedCreationOffersSwitch ==
    CreationFailedOnExistingBranch => SwitchOffered

\* the success message of a creation has been shown
CreatedShown ==
    \E i \in 1..Len(shown) :
        /\ shown[i].level = "info"
        /\ shown[i].text[1] = "BranchAI: Successfully created and switched to branch '"

\* C32: when the valid name chosen does not exist and its creation succeeds,
\* the branch exists afterwards and is the checked-out branch, and the
\* success message is shown in that case and in no other.
C32_CreatedBranchIsCheckedOut ==
    /\ [][CreateChosenBranch =>
            LET name == ui.chosen[1]
            IN  /\ CreatedShown' <=> (name \notin git.branches /\ name \in git'.branches)
                /\ CreatedShown' => /\ git'.head = <<name>>
                                    /\ git'.branches = git.branches \cup {name}
                                    /\ ~BreaksSomeRule(name)]_vars
    /\ [](CreatedShown =>
            /\ ui.step = "done"
            /\ Ran("git switch -c")
            /\ ~SwitchOffered
            /\ shown[Len(shown)] = CreatedMessage(ui.chosen[1])
            /\ ui.chosen[1] \in git.branches
            /\ git.head = ui.chosen)

\* the user selected "b", which did not exist, and it was created
C32_Witness ==
    /\ CreatedShown
    /\ ui.chosen = << <<"b">> >>
    /\ git.head = << <<"b">> >>
    /\ <<"b">> \in git.branches

\* the calls and commands the latest step has added
NewlyIssued == SubSeq(issued', Len(issued) + 1, Len(issued'))

\* C33: when the warning that offers to switch is answered with Switch, the
\* command runs exactly one `git switch` to the branch that exists and no
\* `git switch -c`; answered with Cancel or dismissed, it runs no git command
\* at all and the repository stays as it is.
C33_SwitchPromptAnswer ==
    [][SwitchOfferAnswered =>
          IF ui'.selection = <<"Switch">>
          THEN /\ NewlyIssued = <<Call("switchToBranch"), Command("git switch", ui.chosen[1])>>
               /\ ui.chosen[1] \in git.branches
               /\ ~Ran("git switch -c")'
               /\ git'.branches = git.branches
          ELSE /\ NewlyIssued = <<>>
               /\ git' = git
               /\ ~Ran("git switch")'
               /\ ~Ran("git switch -c")']_vars

\* the user answered Switch and the existing branch "a" is checked out
C33_Witness ==
    /\ ui.step = "done"
    /\ ui.selection = <<"Switch">>
    /\ Ran("git switch")
    /\ git.head = << <<"a">> >>

\* the messages the latest step has shown
NewlyShown == SubSeq(shown', Len(shown) + 1, Len(shown'))

\* the latest step has shown exactly one message, an error or a warning
OneFailureMessage ==
    /\ Len(NewlyShown) = 1
    /\ NewlyShown[1].level \in {"error", "warning"}
    /\ NewlyShown[1].text # <<>>

\* C34: a failure of generateBranchNames, of the creation of the branch or of
\* the switch to it ends in a message to the user: the step in which the
\* command learns of the failure shows an error or a warning, which for a
\* failed generation carries the message of the error thrown.
C34_EveryFailureIsShown ==
    [][/\ (GenerationEnds /\ result.kind = "error") =>
              /\ OneFailureMessage
              /\ includes(NewlyShown[1].text, result.message)
       /\ (CreateChosenBranch /\ git'.head # ui.chosen) => OneFailureMessage
       /\ (SwitchOfferAnswered /\ ui'.selection = <<"Switch">> /\ git'.head # ui.chosen)
              => OneFailureMessage]_vars

\* the switch the user confirmed failed and the error is shown
C34_Witness ==
    /\ ui.step = "done"
    /\ ui.selection = <<"Switch">>
    /\ Ran("git switch")
    /\ git.head # ui.chosen
    /\ shown[Len(shown)].level = "error"
    /\ shown[Len(shown)].text[1] = "BranchAI: Failed to switch to branch: "

\* ================================================================ callAI
\* One invocation of AIService.callAI against a clock: fetch resolves when the
\* status line and the headers of the response have arrived, response.text()
\* and response.json() when its body has.
SvcFrame ==
    UNCHANGED <<genVars, settings, loaded, validated, branchName, nameCheck,
                workspace, gitCall, gitResult, ctlVars>>

InitCall ==
    /\ GenIdle
    /\ settings = NoSettings
    /\ loaded = <<>>
    /\ validated = <<>>
    /\ branchName = <<>>
    /\ nameCheck = <<>>
    /\ workspace = TRUE
    /\ gitCall = NoGitCall
    /\ gitResult = <<>>
    /\ ui = NoUI
    /\ git = NoRepository
    /\ issued = <<>>
    /\ shown = <<>>
    /\ svc = NoSvc
    /\ net \in {[NoNet EXCEPT !.timeout = t] : t \in 1..MaxTimeout}

\* callAI starts: setTimeout(() => controller.abort(), config.timeout), then fetch
CallAI ==
    /\ net.phase = "idle"
    /\ net' = [net EXCEPT !.phase = "fetch", !.armed = TRUE]
    /\ UNCHANGED svc
    /\ SvcFrame

\* a tick of the clock while callAI awaits; a timer that is due fires first
Tick ==
    /\ net.phase \in {"fetch", "body"}
    /\ net.elapsed < net.timeout + MaxOverrun
    /\ ~(net.armed /\ net.elapsed >= net.timeout)
    /\ net' = [net EXCEPT !.elapsed = @ + 1]
    /\ UNCHANGED svc
    /\ SvcFrame

\* the timer fires: controller.abort() rejects the pending await with an
\* AbortError, which the catch block turns into TIMEOUT_ERROR
TimerFires ==
    /\ net.phase \in {"fetch", "body"}
    /\ net.armed
    /\ net.elapsed >= net.timeout
    /\ net' = [net EXCEPT !.phase = "done", !.armed = FALSE, !.thrown = "TIMEOUT_ERROR"]
    /\ UNCHANGED svc
    /\ SvcFrame

\* fetch resolves with the status of the response: clearTimeout(timeoutId)
ResponseStarts ==
    /\ net.phase = "fetch"
    /\ \E status \in {200, 401, 503} :
        net' = [net EXCEPT !.phase = "body", !.armed = FALSE, !.status = status]
    /\ UNCHANGED svc
    /\ SvcFrame

\* fetch rejects with a network error: the catch block clears the timer and
\* throws the error on
FetchRejects ==
    /\ net.phase = "fetch"
    /\ net' = [net EXCEPT !.phase = "done", !.armed = FALSE, !.thrown = "TypeError"]
    /\ UNCHANGED svc
    /\ SvcFrame

\* the body of the response has arrived: response.text() of a response that
\* is not ok, response.json() of one that is
BodyArrives ==
    /\ net.phase = "body"
    /\ \E body \in {"content", "no choices", "no json"} :
        net' = [net EXCEPT !.phase = "done",
                           !.thrown = IF net.status # 200 \/ body = "no choices"
                                      THEN "API_ERROR"
                                      ELSE IF body = "no json" THEN "SyntaxError" ELSE ""]
    /\ UNCHANGED svc
    /\ SvcFrame

NextCall ==
    \/ CallAI
    \/ Tick
    \/ TimerFires
    \/ ResponseStarts
    \/ FetchRejects
    \/ BodyArrives

SpecCall == InitCall /\ [][NextCall]_vars

\* C35: an attempt is bound by config.timeout: callAI is never awaiting a
\* reply (its status or its body) after the deadline has passed, and an
\* attempt never ends later than its deadline.
C35_NoAttemptOutlivesDeadline ==
    net.phase \in {"fetch", "body", "done"} => net.elapsed <= net.timeout

buildPrompt_ContextFirst(context, commitMessage, countArg) ==
    LET n == NumberToString(IF countArg # <<>> THEN countArg[1] ELSE 5)
        prompt == <<"You are a helpful assistant that generates Git branch names. Generate ">>
                  \o n \o <<" branch name suggestions ... Return only the ">>
                  \o n \o <<" branch names, one per line, in order of relevance.">>
    IN  IF context # <<>> /\ trim(context[1]) # <<>>
        THEN prompt \o <<"\n\nGit diff context:\n">> \o trim(context[1])
        ELSE IF commitMessage # <<>> /\ trim(commitMessage[1]) # <<>>
        THEN prompt \o <<"\n\nCommit message context:\n">> \o trim(commitMessage[1])
        ELSE prompt

\* AIService.buildPrompt; its parameter `count` (countArg) defaults to 5. The prompt is the
\* sequence of its pieces: the fixed parts of the template, the digits of the
\* count, the label of the context block, the characters of the context.
buildPrompt(context, commitMessage, countArg) ==
    LET n == NumberToString(IF countArg # <<>> THEN countArg[1] ELSE 5)
        prompt == <<"You are a helpful assistant that generates Git branch names. Generate ">>
                  \o n
                  \o <<" branch name suggestions based on the user's work context.\n\nRequirements:\n- Use conventional branch naming prefixes: feature/, bugfix/, hotfix/, refactor/, docs/, test/, chore/\n- Use kebab-case for the branch name\n- Keep names concise but descriptive (max 50 characters)\n- Follow the format: prefix/description\n- Ensure each suggestion is unique\n- Analyze the provided context to understand the work being done\n\nOutput format: Return only the ">>
                  \o n
                  \o <<" branch names, one per line, in order of relevance.">>
    IN  IF commitMessage # <<>> /\ commitMessage[1] # <<>> /\ trim(commitMessage[1]) # <<>>
        THEN prompt \o <<"\n\nCommit message context:\n">> \o trim(commitMessage[1])
        ELSE IF context # <<>> /\ context[1] # <<>> /\ trim(context[1]) # <<>>
        THEN prompt \o <<"\n\nGit diff context:\n">> \o trim(context[1])
        ELSE prompt

\* variant of getMaskedApiKey: four characters of the key are shown
getMaskedApiKey_FirstFour(apiKey) ==
    IF apiKey = <<>> THEN <<>> ELSE slice0(apiKey, 4) \o <<"*", "*", "*">>

\* AIService.getMaskedApiKey, for the value of config.apiKey
getMaskedApiKey(apiKey) ==
    IF apiKey = <<>> THEN <<>> ELSE slice0(apiKey, 3) \o <<"*", "*", "*">>

\* the API keys of the model: the texts of two letters up to the longest key
ApiKeys == UNION {[1..n -> {"s", "k"}] : n \in 0..MaxKeyLen}

\* the arguments of a call: a context, a commit message and a count, each
\* given or omitted, or the key of the configuration
InitService ==
    /\ GenIdle
    /\ settings = NoSettings
    /\ loaded = <<>>
    /\ validated = <<>>
    /\ branchName = <<>>
    /\ nameCheck = <<>>
    /\ workspace = TRUE
    /\ gitCall = NoGitCall
    /\ gitResult = <<>>
    /\ ui = NoUI
    /\ git = NoRepository
    /\ issued = <<>>
    /\ shown = <<>>
    /\ net = NoNet
    /\ LET texts == {<<>>} \cup {<<t>> : t \in UNION {[1..n -> {"a", " ", "\n"}] : n \in 0..MaxTextLen}}
       IN  svc \in {[NoSvc EXCEPT !.context = c, !.commitMessage = m, !.count = n] :
                       c \in texts, m \in texts, n \in {<<>>, <<1>>, <<3>>, <<10>>}}
                   \cup {[NoSvc EXCEPT !.apiKey = k] : k \in ApiKeys}

\* one call of buildPrompt
BuildPrompt ==
    /\ svc.op = "none"
    /\ svc' = [svc EXCEPT !.op = "buildPrompt",
                          !.value = buildPrompt(svc.context, svc.commitMessage, svc.count)]
    /\ UNCHANGED net
    /\ SvcFrame

\* one call of getMaskedApiKey
GetMaskedApiKey ==
    /\ svc.op = "none"
    /\ svc' = [svc EXCEPT !.op = "getMaskedApiKey", !.value = getMaskedApiKey(svc.apiKey)]
    /\ UNCHANGED net
    /\ SvcFrame

NextService ==
    \/ BuildPrompt
    \/ GetMaskedApiKey

SpecService == InitService /\ [][NextService]_vars

\* an optional text, trimmed; empty when it is omitted
Trimmed(text) == IF text = <<>> THEN <<>> ELSE trim(text[1])

\* the positions of the labels of content blocks in a prompt
BlockLabels(prompt) ==
    {i \in 1..Len(prompt) :
        prompt[i] \in {"\n\nCommit message context:\n", "\n\nGit diff context:\n"}}

\* the prompt holds exactly one content block, with this label and this content
OnlyBlock(prompt, label, content) ==
    /\ Cardinality(BlockLabels(prompt)) = 1
    /\ \A i \in BlockLabels(prompt) :
          /\ prompt[i] = label
          /\ SubSeq(prompt, i + 1, Len(prompt)) = content

\* the digits of a prompt ahead of its content block
DigitsAhead(prompt) ==
    LET ahead == IF BlockLabels(prompt) = {} THEN prompt
                 ELSE SubSeq(prompt, 1, (CHOOSE i \in BlockLabels(prompt) : TRUE) - 1)
    IN  SelectSeq(ahead, LAMBDA c : \E d \in 1..10 : DigitChars[d] = c)

\* C37: the prompt holds at most one content block: the commit message under
\* its label when it is not empty after trimming, otherwise the context under
\* the diff label when that is not empty after trimming, otherwise none; and
\* it names the count passed, in both places of the template.
C37_OneContentBlockByPrecedence ==
    svc.op = "buildPrompt" =>
        LET description == Trimmed(svc.commitMessage)
            diffContext == Trimmed(svc.context)
        IN  /\ Cardinality(BlockLabels(svc.value)) <= 1
            /\ description # <<>> =>
                  OnlyBlock(svc.value, "\n\nCommit message context:\n", description)
            /\ (description = <<>> /\ diffContext # <<>>) =>
                  OnlyBlock(svc.value, "\n\nGit diff context:\n", diffContext)
            /\ (description = <<>> /\ diffContext = <<>>) => BlockLabels(svc.value) = {}
            /\ svc.count # <<>> =>
                  DigitsAhead(svc.value) = NumberToString(svc.count[1]) \o NumberToString(svc.count[1])

\* a prompt for ten names, built from a commit message and a context that
\* differ: only the commit message is in it
C37_Witness ==
    /\ svc.op = "buildPrompt"
    /\ svc.commitMessage = << <<" ", "a">> >>
    /\ svc.context = << <<"a", "a">> >>
    /\ svc.count = <<10>>
    /\ svc.value[Len(svc.value) - 1] = "\n\nCommit message context:\n"
    /\ svc.value[Len(svc.value)] = "a"

\* C38: the mask is empty for an empty key and otherwise the first three
\* characters of the key followed by "***"; it is the same for every key
\* with the same first three characters.
C38_MaskShowsThreeCharacters ==
    svc.op = "getMaskedApiKey" =>
        /\ svc.apiKey = <<>> => svc.value = <<>>
        /\ svc.apiKey # <<>> => svc.value = slice0(svc.apiKey, 3) \o <<"*", "*", "*">>
        /\ \A other \in ApiKeys :
              slice0(other, 3) = slice0(svc.apiKey, 3) => getMaskedApiKey(other) = svc.value

\* the mask of a key of four characters
C38_Witness ==
    /\ svc.op = "getMaskedApiKey"
    /\ svc.apiKey = <<"s", "k", "s", "k">>
    /\ svc.value = <<"s", "k", "s", "*", "*", "*">>

\* C39: a command whose chosen branch exists is finished only when the
\* warning that offers the switch has been answered and a confirmed switch
\* has been made: once the command has returned, it runs no further git
\* command and the repository stays as the command left it.
C39_NoCommandAfterTheFlowHasFinished ==
    [][CommandReturned =>
          /\ \A i \in 1..Len(NewlyIssued) : NewlyIssued[i].call # "exec"
          /\ git' = git]_vars

\* C40: every invocation of generateBranchNames ends, with a list returned or
\* an error thrown, when each attempt ends and each sleep elapses.
C40_GenerateEnds == <>(pc = "done" /\ result.kind \in {"ok", "error"})

\* an invocation ended after four attempts and three sleeps
C40_Witness ==
    /\ pc = "done"
    /\ attempts = 4
    /\ Len(delays) = 3
    /\ result.kind = "error"
====
